---- MODULE Spec2Model ----
(***************************************************************************)
(* Sneaky Town: the round engine over the rows of the `rounds`, `moves`    *)
(* and `games` tables (convex schema), the rules of docs/rules.md and the  *)
(* time-control flow of the data-model notes.                              *)
(*                                                                         *)
(* The round state is the schema's denormalised boardState: the lattice    *)
(* stores the owner of the stone on each intersection (0, 1 or 2), the     *)
(* reserves are counts, the reveal positions are booleans and the swap     *)
(* positions store the owner of the sacrificed stone.                      *)
(***************************************************************************)
EXTENDS Integers, Sequences, FiniteSets, TLC

\* game: the row of `games`; round: the row of `rounds` of the game's current
\* round; moves: that round's rows of `moves` in order; lastResult: what the
\* last call returned; version: the version tag of the stored round row;
\* inflight: per client, the request it has had validated and not yet stored
VARIABLES game, round, moves, lastResult, version, inflight

\* the state of the SVG annotator (svg-annotator.tsx): rules maps node ids to
\* patches, validationErrors is the list validateAll last stored, elements the
\* list Export Board Elements last wrote
VARIABLES rules, validationErrors, elements

engine == <<game, round, moves, lastResult, version, inflight>>

annotator == <<rules, validationErrors, elements>>

vars == <<game, round, moves, lastResult, version, inflight, rules, validationErrors, elements>>

----------------------------------------------------------------------------
(* Program constants *)

\* each player has 8 stones
NumStones == 8
\* 5x5 lattice, five sight lines per player
LatticeSize == 5
\* swap positions: 2 rows x 6 columns
SwapRows == 2
SwapCols == 6

(* Bounds of the exploration *)

\* turns played per round: no action but End Round is submitted after turn MaxTurns
MaxTurns == 3
\* a submitted action arrives MaxElapsed seconds after turnStartedAt, or at once
MaxElapsed == 2
\* the time control of the timed games explored
StartingSeconds == 3
IncrementSeconds == 1
BetweenRoundSeconds == 2
\* rounds played per game
MaxRounds == 3
\* turns played per round in the long rounds, the last turn on which they swap,
\* and the stones left in reserve when they start to reveal
MaxLongTurns == 17
MaxSwapTurns == 6
LastStones == 2
\* round wins that end a first-to-N game
TargetWins == 2
\* nodes of the annotated SVG that carry a rule at one time
MaxRules == 1

----------------------------------------------------------------------------
(* Schema values *)

Players == {"player1", "player2"}

Opponent(p) == IF p = "player1" THEN "player2" ELSE "player1"

\* lattice and swap cells: 0 = empty, 1 = player1 stone, 2 = player2 stone
PlayerNum(p) == IF p = "player1" THEN 1 ELSE 2

Charms == {"blueSun", "brownSun", "flower"}

\* absent optional values
Null == [null |-> TRUE]
NoPlayer == "none"
NoTime == 0 - 1

Idx == 0 .. (LatticeSize - 1)

EmptyLattice == [l \in Idx |-> [r \in Idx |-> 0]]

EmptySwapPositions == [row \in 0 .. (SwapRows - 1) |-> [col \in 0 .. (SwapCols - 1) |-> 0]]

NoReveals == [i \in Idx |-> FALSE]

InitialBoardState ==
    [ lattice |-> EmptyLattice,
      player1ReserveCount |-> NumStones,
      player2ReserveCount |-> NumStones,
      player1RevealPositions |-> NoReveals,
      player2RevealPositions |-> NoReveals,
      swapPositions |-> EmptySwapPositions ]

\* accessors of the per-player fields
ReserveCount(b, p) ==
    IF p = "player1" THEN b.player1ReserveCount ELSE b.player2ReserveCount

\* the reveal positions in front of p's sight lines
RevealPositions(b, p) ==
    IF p = "player1" THEN b.player1RevealPositions ELSE b.player2RevealPositions

SightTiles(r, p) ==
    IF p = "player1" THEN r.player1SightTiles ELSE r.player2SightTiles

WithReserveCount(b, p, n) ==
    IF p = "player1" THEN [b EXCEPT !.player1ReserveCount = n]
    ELSE [b EXCEPT !.player2ReserveCount = n]

\* (mutant) a reveal position written over a fresh array
WithRevealPositionOnly(b, p, i) ==
    IF p = "player1" THEN [b EXCEPT !.player1RevealPositions = [j \in 0 .. (LatticeSize - 1) |-> j = i]]
    ELSE [b EXCEPT !.player2RevealPositions = [j \in 0 .. (LatticeSize - 1) |-> j = i]]

WithRevealPosition(b, p, i) ==
    IF p = "player1" THEN [b EXCEPT !.player1RevealPositions[i] = TRUE]
    ELSE [b EXCEPT !.player2RevealPositions[i] = TRUE]

----------------------------------------------------------------------------
(* Scoring Engine *)

PlayerColor(g, p) ==
    IF p = "player1" THEN g.player1Color
    ELSE IF g.player1Color = "blue" THEN "brown" ELSE "blue"

OwnSun(g, p) == IF PlayerColor(g, p) = "blue" THEN "blueSun" ELSE "brownSun"

\* (mutant) the table with the two suns exchanged
CharmPointsSunsExchanged(g, p, k) ==
    IF k = "flower" THEN 10
    ELSE IF k = OwnSun(g, p) THEN 5
    ELSE 15

\* points per charm awarded to the capturing player
CharmPoints(g, p, k) ==
    IF k = "flower" THEN 10
    ELSE IF k = OwnSun(g, p) THEN 15
    ELSE 5

\* the sight-line index at which a rack holds charm k
TileIndex(tiles, k) == CHOOSE i \in Idx : tiles[i] = k

\* a charm lies where the two players' sight lines of that charm meet
CharmLocation(r, k) ==
    [ leftIndex |-> TileIndex(r.player1SightTiles, k),
      rightIndex |-> TileIndex(r.player2SightTiles, k) ]

CellAt(b, pos) == b.lattice[pos.leftIndex][pos.rightIndex]

\* (mutant) a charm captured by whoever looks at a covered intersection
CapturedCharmsAnyStone(r, p) ==
    {k \in Charms : CellAt(r.boardState, CharmLocation(r, k)) # 0}

CapturedCharms(r, p) ==
    {k \in Charms : CellAt(r.boardState, CharmLocation(r, k)) = PlayerNum(p)}

\* (mutant) the voids charged to the player whose tiles they are
RevealedVoidsOfOwner(r, p) ==
    Cardinality({i \in 0 .. (LatticeSize - 1) :
                    /\ RevealPositions(r.boardState, p)[i]
                    /\ SightTiles(r, p)[i] = "void"})

\* voids revealed by p: p's stones stand in front of the opponent's sight lines
RevealedVoidsBy(r, p) ==
    Cardinality({i \in Idx : /\ RevealPositions(r.boardState, Opponent(p))[i]
                             /\ SightTiles(r, Opponent(p))[i] = "void"})

RECURSIVE SumPoints(_, _, _)
SumPoints(g, p, ks) ==
    IF ks = {} THEN 0
    ELSE LET k == CHOOSE x \in ks : TRUE
         IN CharmPoints(g, p, k) + SumPoints(g, p, ks \ {k})

Points(g, r, p) == SumPoints(g, p, CapturedCharms(r, p)) - RevealedVoidsBy(r, p)

\* (mutant) a tie given to the player who ended the round
RoundWinnerTieToEnder(p1, p2, ender) ==
    IF p1 > p2 THEN "player1"
    ELSE IF p2 > p1 THEN "player2"
    ELSE ender

\* more points wins; on a tie the player who ended the round loses
RoundWinner(p1, p2, ender) ==
    IF p1 > p2 THEN "player1"
    ELSE IF p2 > p1 THEN "player2"
    ELSE Opponent(ender)

ComputeScoring(g, r, ender) ==
    [ capturedCharms |-> [ player1 |-> CapturedCharms(r, "player1"),
                           player2 |-> CapturedCharms(r, "player2") ],
      revealedVoidsByPlayer |-> [ player1 |-> RevealedVoidsBy(r, "player1"),
                                  player2 |-> RevealedVoidsBy(r, "player2") ],
      points |-> [ player1 |-> Points(g, r, "player1"),
                   player2 |-> Points(g, r, "player2") ],
      winner |-> RoundWinner(Points(g, r, "player1"), Points(g, r, "player2"), ender) ]

----------------------------------------------------------------------------
(* Move Validator *)

InRange(pos) == pos.leftIndex \in Idx /\ pos.rightIndex \in Idx

\* (mutant) a Cast that does not look at the target cell
ValidateCastAnyCell(b, p, a) ==
    IF ~(a.position.leftIndex \in Idx /\ a.position.rightIndex \in Idx) THEN "UnknownSlot"
    ELSE IF ReserveCount(b, p) = 0 THEN "InvalidStoneState"
    ELSE "legal"

\* the reason an action of player p is illegal on board b, or "legal"
ValidateCast(b, p, a) ==
    IF ~InRange(a.position) THEN "UnknownSlot"
    ELSE IF ReserveCount(b, p) = 0 THEN "InvalidStoneState"
    ELSE IF CellAt(b, a.position) # 0 THEN "TargetOccupied"
    ELSE "legal"

\* (mutant) a stone of either player will do
AnyStoneAt(b, p, pos) ==
    IF ~InRange(pos) THEN "UnknownSlot"
    ELSE IF CellAt(b, pos) = 0 THEN "TargetEmpty"
    ELSE "legal"

\* the reason `pos` does not hold a stone of player p, or "legal"
OwnStoneAt(b, p, pos) ==
    IF ~InRange(pos) THEN "UnknownSlot"
    ELSE IF CellAt(b, pos) = 0 THEN "TargetEmpty"
    ELSE IF CellAt(b, pos) # PlayerNum(p) THEN "InvalidStoneState"
    ELSE "legal"

ValidateTransfer(b, p, a) ==
    IF OwnStoneAt(b, p, a.fromPosition) # "legal" THEN OwnStoneAt(b, p, a.fromPosition)
    ELSE IF ~InRange(a.toPosition) THEN "UnknownSlot"
    ELSE IF CellAt(b, a.toPosition) # 0 THEN "TargetOccupied"
    ELSE "legal"

ValidateRecover(b, p, a) == OwnStoneAt(b, p, a.fromPosition)

\* (mutant) a Reveal that does not look at the reveal position
ValidateRevealAnySlot(b, p, a) ==
    IF a.sightLineIndex \notin Idx \/ a.targetPlayer # Opponent(p) THEN "UnknownSlot"
    ELSE IF ReserveCount(b, p) = 0 THEN "InvalidStoneState"
    ELSE "legal"

ValidateReveal(b, p, a) ==
    IF a.sightLineIndex \notin Idx \/ a.targetPlayer # Opponent(p) THEN "UnknownSlot"
    ELSE IF ReserveCount(b, p) = 0 THEN "InvalidStoneState"
    ELSE IF RevealPositions(b, a.targetPlayer)[a.sightLineIndex] THEN "SlotOccupied"
    ELSE "legal"

\* (mutant) a Swap that takes any cast stone for the opponent's
ValidateSwapAnyTarget(b, p, a) ==
    IF a.swapRow \notin 0 .. (SwapRows - 1) \/ a.swapCol \notin 0 .. (SwapCols - 1)
    THEN "UnknownSlot"
    ELSE IF ReserveCount(b, p) = 0 THEN "InvalidStoneState"
    ELSE IF b.swapPositions[a.swapRow][a.swapCol] # 0 THEN "SlotOccupied"
    ELSE IF OwnStoneAt(b, p, a.ownStonePosition) # "legal"
    THEN OwnStoneAt(b, p, a.ownStonePosition)
    ELSE IF ~(a.opponentStonePosition.leftIndex \in Idx /\ a.opponentStonePosition.rightIndex \in Idx)
    THEN "UnknownSlot"
    ELSE IF CellAt(b, a.opponentStonePosition) = 0 THEN "TargetEmpty"
    ELSE "legal"

ValidateSwap(b, p, a) ==
    IF a.swapRow \notin 0 .. (SwapRows - 1) \/ a.swapCol \notin 0 .. (SwapCols - 1)
    THEN "UnknownSlot"
    ELSE IF ReserveCount(b, p) = 0 THEN "InvalidStoneState"
    ELSE IF b.swapPositions[a.swapRow][a.swapCol] # 0 THEN "SlotOccupied"
    ELSE IF OwnStoneAt(b, p, a.ownStonePosition) # "legal"
    THEN OwnStoneAt(b, p, a.ownStonePosition)
    ELSE IF ~InRange(a.opponentStonePosition) THEN "UnknownSlot"
    ELSE IF CellAt(b, a.opponentStonePosition) = 0 THEN "TargetEmpty"
    ELSE IF CellAt(b, a.opponentStonePosition) = PlayerNum(p) THEN "SelfTargetInSwap"
    ELSE "legal"

\* (mutant) an End Round that needs a stone in reserve
ValidateEndNeedsReserve(b, p, a) ==
    CASE a.type = "cast" -> ValidateCast(b, p, a)
      [] a.type = "transfer" -> ValidateTransfer(b, p, a)
      [] a.type = "recover" -> ValidateRecover(b, p, a)
      [] a.type = "reveal" -> ValidateReveal(b, p, a)
      [] a.type = "swap" -> ValidateSwap(b, p, a)
      [] a.type = "endRound" -> IF ReserveCount(b, p) = 0 THEN "InvalidStoneState" ELSE "legal"

Validate(b, p, a) ==
    CASE a.type = "cast" -> ValidateCast(b, p, a)
      [] a.type = "transfer" -> ValidateTransfer(b, p, a)
      [] a.type = "recover" -> ValidateRecover(b, p, a)
      [] a.type = "reveal" -> ValidateReveal(b, p, a)
      [] a.type = "swap" -> ValidateSwap(b, p, a)
      [] a.type = "endRound" -> "legal"

----------------------------------------------------------------------------
(* State Applier: the board after a legal action *)

WithCell(b, pos, n) == [b EXCEPT !.lattice[pos.leftIndex][pos.rightIndex] = n]

ApplyCast(b, p, a) ==
    WithCell(WithReserveCount(b, p, ReserveCount(b, p) - 1), a.position, PlayerNum(p))

ApplyTransfer(b, p, a) ==
    WithCell(WithCell(b, a.fromPosition, 0), a.toPosition, PlayerNum(p))

\* (mutant) a Recover that leaves the stone on the lattice
ApplyRecoverKeepsStone(b, p, a) == WithReserveCount(b, p, ReserveCount(b, p) + 1)

ApplyRecover(b, p, a) ==
    WithCell(WithReserveCount(b, p, ReserveCount(b, p) + 1), a.fromPosition, 0)

\* (mutant) the sacrificed stone put in front of the player's own sight line
ApplyRevealOwnSide(b, p, a) ==
    WithRevealPosition(WithReserveCount(b, p, ReserveCount(b, p) - 1), p, a.sightLineIndex)

\* the sacrificed stone goes on the "+" in front of the opponent's sight line
ApplyReveal(b, p, a) ==
    WithRevealPosition(WithReserveCount(b, p, ReserveCount(b, p) - 1),
                       a.targetPlayer, a.sightLineIndex)

\* (mutant) a Swap that sacrifices the stone and leaves the two stones where they are
ApplySwapKeepsCells(b, p, a) ==
    LET b1 == WithReserveCount(b, p, ReserveCount(b, p) - 1)
    IN [b1 EXCEPT !.swapPositions[a.swapRow][a.swapCol] = PlayerNum(p)]

\* the sacrificed stone goes on the swap position; the two cast stones change places
ApplySwap(b, p, a) ==
    LET b1 == WithReserveCount(b, p, ReserveCount(b, p) - 1)
        b2 == [b1 EXCEPT !.swapPositions[a.swapRow][a.swapCol] = PlayerNum(p)]
    IN WithCell(WithCell(b2, a.ownStonePosition, PlayerNum(Opponent(p))),
                a.opponentStonePosition, PlayerNum(p))

ApplyBoard(b, p, a) ==
    CASE a.type = "cast" -> ApplyCast(b, p, a)
      [] a.type = "transfer" -> ApplyTransfer(b, p, a)
      [] a.type = "recover" -> ApplyRecover(b, p, a)
      [] a.type = "reveal" -> ApplyReveal(b, p, a)
      [] a.type = "swap" -> ApplySwap(b, p, a)
      [] a.type = "endRound" -> b

\* (mutant) the revealed bits of the target rebuilt from the last Reveal alone
ApplyRevealedLastOnly(rev, a) ==
    IF a.type = "reveal"
    THEN [rev EXCEPT ![a.targetPlayer] = [j \in Idx |-> j = a.sightLineIndex]]
    ELSE rev

\* a Reveal discloses the target's sight tile at that index
ApplyRevealed(rev, a) ==
    IF a.type = "reveal" THEN [rev EXCEPT ![a.targetPlayer][a.sightLineIndex] = TRUE]
    ELSE rev

----------------------------------------------------------------------------
(* Turn & Clock Controller, and submitAction *)

Timed(g) == g.timeControl # Null

\* time deducted from the current player's clock when an action arrives at T
Deducted(r, T) == r.timeRemaining[r.currentTurnPlayer] - (T - r.turnStartedAt)

\* (mutant) a clock that has run out only below zero
TimedOutBelowZero(g, r, T) == g.timeControl # Null /\ Deducted(r, T) < 0

TimedOut(g, r, T) == Timed(g) /\ Deducted(r, T) <= 0

\* (mutant) clocks that get no increment
ClockAcceptedNoIncrement(g, r, T) ==
    IF g.timeControl # Null
    THEN [r EXCEPT !.timeRemaining[r.currentTurnPlayer] =
                        r.timeRemaining[r.currentTurnPlayer] - (T - r.turnStartedAt),
                   !.turnStartedAt = T]
    ELSE [r EXCEPT !.turnStartedAt = T]

\* the clocks after an on-time action at T: deduct, add the increment, restart the turn
ClockAccepted(g, r, T) ==
    IF Timed(g)
    THEN [r EXCEPT !.timeRemaining[r.currentTurnPlayer] =
                        Deducted(r, T) + g.timeControl.incrementSeconds,
                   !.turnStartedAt = T]
    ELSE [r EXCEPT !.turnStartedAt = T]

\* the clocks after a timeout detected at T: the deducted time is stored
ClockTimedOut(r, T) ==
    [r EXCEPT !.timeRemaining[r.currentTurnPlayer] = Deducted(r, T)]

\* (mutant) an End Round that scores the round but leaves it active
EndRoundStaysActive(g, r, ender, T) ==
    [r EXCEPT !.endedAt = T,
              !.endedBy = ender,
              !.scoring = ComputeScoring(g, r, ender)]

\* End Round: no board mutation; the round enters scoring with its result
EndRound(g, r, ender, T) ==
    [r EXCEPT !.status = "scoring",
              !.endedAt = T,
              !.endedBy = ender,
              !.scoring = ComputeScoring(g, r, ender)]

\* (mutant) the turn passes without being counted
AdvanceTurnUncounted(r) ==
    [r EXCEPT !.currentTurnPlayer = Opponent(r.currentTurnPlayer)]

\* the turn passes to the other player
AdvanceTurn(r) ==
    [r EXCEPT !.currentTurnPlayer = Opponent(r.currentTurnPlayer),
              !.turnNumber = r.turnNumber + 1]

\* (mutant) a Reveal that marks the tile revealed only when it is a charm
ApplyActionRevealsCharms(g, r, a, T) ==
    IF a.type = "endRound"
    THEN EndRound(g, ClockAccepted(g, r, T), r.currentTurnPlayer, T)
    ELSE AdvanceTurn(
            [ClockAccepted(g, r, T) EXCEPT
                !.boardState = ApplyBoard(r.boardState, r.currentTurnPlayer, a),
                !.revealedSightTiles =
                    IF a.type = "reveal"
                          /\ SightTiles(r, a.targetPlayer)[a.sightLineIndex] = "void"
                    THEN r.revealedSightTiles
                    ELSE ApplyRevealed(r.revealedSightTiles, a)])

\* the round after a legal, on-time action of the current player
ApplyAction(g, r, a, T) ==
    IF a.type = "endRound"
    THEN EndRound(g, ClockAccepted(g, r, T), r.currentTurnPlayer, T)
    ELSE AdvanceTurn(
            [ClockAccepted(g, r, T) EXCEPT
                !.boardState = ApplyBoard(r.boardState, r.currentTurnPlayer, a),
                !.revealedSightTiles = ApplyRevealed(r.revealedSightTiles, a)])

\* (mutant) a log entry stamped with the start of the turn
MoveEntryTurnStart(r, p, a, T) ==
    [turnNumber |-> r.turnNumber, player |-> p, action |-> a, timestamp |-> r.turnStartedAt]

MoveEntry(r, p, a, T) ==
    [turnNumber |-> r.turnNumber, player |-> p, action |-> a, timestamp |-> T]

\* (mutant) a rejection that still counts the turn
RejectedCountsTurn(r, reason) ==
    [ outcome |-> "rejected", reason |-> reason,
      round |-> [r EXCEPT !.turnNumber = r.turnNumber + 1], entries |-> <<>> ]

Rejected(r, reason) ==
    [outcome |-> "rejected", reason |-> reason, round |-> r, entries |-> <<>>]

\* (mutant) submitAction without the turn check
SubmitActionAnyPlayer(g, r, p, a, T) ==
    IF r.status # "active" THEN Rejected(r, "WrongRoundPhase")
    ELSE IF TimedOut(g, r, T)
    THEN [ outcome |-> "forced", reason |-> "none",
           round |-> EndRound(g, ClockTimedOut(r, T), r.currentTurnPlayer, T),
           entries |-> <<MoveEntry(r, r.currentTurnPlayer, [type |-> "endRound"], T)>> ]
    ELSE IF Validate(r.boardState, p, a) # "legal"
    THEN Rejected(r, Validate(r.boardState, p, a))
    ELSE [ outcome |-> "accepted", reason |-> "none",
           round |-> ApplyAction(g, r, a, T),
           entries |-> <<MoveEntry(r, p, a, T)>> ]

\* (mutant) submitAction that validates before it looks at the clock
SubmitActionValidatesFirst(g, r, p, a, T) ==
    IF r.status # "active" THEN Rejected(r, "WrongRoundPhase")
    ELSE IF p # r.currentTurnPlayer THEN Rejected(r, "NotYourTurn")
    ELSE IF Validate(r.boardState, p, a) # "legal"
    THEN Rejected(r, Validate(r.boardState, p, a))
    ELSE IF TimedOut(g, r, T)
    THEN [ outcome |-> "forced", reason |-> "none",
           round |-> EndRound(g, ClockTimedOut(r, T), r.currentTurnPlayer, T),
           entries |-> <<MoveEntry(r, r.currentTurnPlayer, [type |-> "endRound"], T)>> ]
    ELSE [ outcome |-> "accepted", reason |-> "none",
           round |-> ApplyAction(g, r, a, T),
           entries |-> <<MoveEntry(r, p, a, T)>> ]

\* the timeout evaluated at T with no action submitted: the forced End Round of
\* the player to move, or nothing
EvaluateRoundTimeout(g, r, T) ==
    IF r.status = "active" /\ TimedOut(g, r, T)
    THEN [ outcome |-> "forced", reason |-> "none",
           round |-> EndRound(g, ClockTimedOut(r, T), r.currentTurnPlayer, T),
           entries |-> <<MoveEntry(r, r.currentTurnPlayer, [type |-> "endRound"], T)>> ]
    ELSE [outcome |-> "none", reason |-> "none", round |-> r, entries |-> <<>>]

\* phase, then the clock of the player to move, then the turn, then the action's rule
SubmitAction(g, r, p, a, T) ==
    IF r.status # "active" THEN Rejected(r, "WrongRoundPhase")
    ELSE IF TimedOut(g, r, T)
    THEN [ outcome |-> "forced", reason |-> "none",
           round |-> EndRound(g, ClockTimedOut(r, T), r.currentTurnPlayer, T),
           entries |-> <<MoveEntry(r, r.currentTurnPlayer, [type |-> "endRound"], T)>> ]
    ELSE IF p # r.currentTurnPlayer THEN Rejected(r, "NotYourTurn")
    ELSE IF Validate(r.boardState, p, a) # "legal"
    THEN Rejected(r, Validate(r.boardState, p, a))
    ELSE [ outcome |-> "accepted", reason |-> "none",
           round |-> ApplyAction(g, r, a, T),
           entries |-> <<MoveEntry(r, p, a, T)>> ]

\* replay(initialRoundState, log): the log's entries submitted again in order
RECURSIVE Replay(_, _, _)
Replay(g, r, log) ==
    IF log = <<>> THEN r
    ELSE Replay(g,
                SubmitAction(g, r, Head(log).player, Head(log).action,
                             Head(log).timestamp).round,
                Tail(log))

----------------------------------------------------------------------------
(* Round setup *)

\* the tile racks of the rounds explored: index 0-4 is the sight line
Rack(t0, t1, t2, t3, t4) ==
    [i \in Idx |-> CASE i = 0 -> t0 [] i = 1 -> t1 [] i = 2 -> t2 [] i = 3 -> t3 [] i = 4 -> t4]

\* the example round of the rules
ExampleLedger ==
    [ player1 |-> Rack("flower", "void", "blueSun", "void", "brownSun"),
      player2 |-> Rack("brownSun", "blueSun", "void", "flower", "void") ]

\* the shuffles explored: blue sun on (0, 1), flower on (1, 0), voids on index 2
Ledgers ==
    { [ player1 |-> Rack("blueSun", "flower", "void", "brownSun", "void"),
        player2 |-> Rack("flower", "blueSun", "void", "void", "brownSun") ] }

TimeControls ==
    { Null,
      [ startingSeconds |-> StartingSeconds, incrementSeconds |-> IncrementSeconds,
        betweenRoundSeconds |-> BetweenRoundSeconds ] }

OpenEnded == [type |-> "openEnded"]

FirstToN == [type |-> "firstToN", targetWins |-> TargetWins]

\* a game whose two players have joined and whose first round is being set up
NewGame(color, tc, wc) ==
    [ status |-> "active",
      player1Color |-> color,
      roundCount |-> 1,
      roundWins |-> [player1 |-> 0, player2 |-> 0],
      winCondition |-> wc,
      timeControl |-> tc,
      winner |-> NoPlayer,
      betweenRoundState |-> Null ]

\* no SVG is loaded in the annotator
NoAnnotation ==
    /\ rules = <<>>
    /\ validationErrors = <<>>
    /\ elements = <<>>

\* the callers of the engine, and a client with no request in flight
Clients == {"c1", "c2"}

NoRequest ==
    [c \in Clients |-> [ player |-> NoPlayer, action |-> Null, timestamp |-> NoTime,
                         version |-> NoTime, state |-> "none" ]]

NewRound(g, first, ledger) ==
    [ status |-> "setup",
      firstPlayer |-> first,
      currentTurnPlayer |-> first,
      turnNumber |-> 1,
      turnStartedAt |-> 0,
      timeRemaining |-> IF Timed(g)
                        THEN [ player1 |-> g.timeControl.startingSeconds,
                               player2 |-> g.timeControl.startingSeconds ]
                        ELSE Null,
      startedAt |-> 0,
      endedAt |-> NoTime,
      endedBy |-> NoPlayer,
      boardState |-> InitialBoardState,
      player1SightTiles |-> ledger.player1,
      player2SightTiles |-> ledger.player2,
      revealedSightTiles |-> [ player1 |-> NoReveals, player2 |-> NoReveals ],
      scoring |-> Null ]

Init ==
    /\ game \in {NewGame("blue", tc, OpenEnded) : tc \in TimeControls}
    /\ \E first \in Players, ledger \in Ledgers : round = NewRound(game, first, ledger)
    /\ moves = <<>>
    /\ lastResult = "none"
    /\ version = 0
    /\ inflight = NoRequest
    /\ NoAnnotation

----------------------------------------------------------------------------
(* Operations *)

\* setup -> active
StartRound ==
    /\ round.status = "setup"
    /\ round' = [round EXCEPT !.status = "active"]
    /\ version' = version + 1
    /\ UNCHANGED <<game, moves, lastResult, inflight>>
    /\ UNCHANGED annotator

\* the caller stores what submitAction returns and appends the move to the log
Submit(p, a, T) ==
    LET res == SubmitAction(game, round, p, a, T)
    IN /\ round.status # "setup"
       /\ a.type # "endRound" => round.turnNumber <= MaxTurns
       /\ round' = res.round
       /\ moves' = moves \o res.entries
       /\ lastResult' = res.outcome
       /\ version' = IF res.outcome = "rejected" THEN version ELSE version + 1
       /\ UNCHANGED <<game, inflight>>
       /\ UNCHANGED annotator

\* (mutant) a first-to-N game that completes one win past the target
RoundCompletedPastTarget(g, r) ==
    LET w == r.scoring.winner
        wins == [g.roundWins EXCEPT ![w] = g.roundWins[w] + 1]
    IN IF g.winCondition.type = "firstToN" /\ wins[w] > g.winCondition.targetWins
       THEN [g EXCEPT !.roundWins = wins, !.status = "completed", !.winner = w]
       ELSE [g EXCEPT !.roundWins = wins,
                      !.status = "betweenRounds",
                      !.betweenRoundState =
                          [ player1ReadyForNext |-> FALSE,
                            player2ReadyForNext |-> FALSE,
                            betweenRoundStartedAt |-> r.endedAt ]]

\* (mutant) a completion that credits the player who ended the round
RoundCompletedCreditsEnder(g, r) ==
    LET w == r.endedBy
        wins == [g.roundWins EXCEPT ![w] = g.roundWins[w] + 1]
    IN IF g.winCondition.type = "firstToN" /\ wins[w] >= g.winCondition.targetWins
       THEN [g EXCEPT !.roundWins = wins, !.status = "completed", !.winner = w]
       ELSE [g EXCEPT !.roundWins = wins,
                      !.status = "betweenRounds",
                      !.betweenRoundState =
                          [ player1ReadyForNext |-> FALSE,
                            player2ReadyForNext |-> FALSE,
                            betweenRoundStartedAt |-> r.endedAt ]]

\* the game after its round r has completed: the round's winner is credited;
\* a first-to-N game whose target is reached completes, any other game waits
\* for both players to ready up
RoundCompleted(g, r) ==
    LET w == r.scoring.winner
        wins == [g.roundWins EXCEPT ![w] = g.roundWins[w] + 1]
    IN IF g.winCondition.type = "firstToN" /\ wins[w] >= g.winCondition.targetWins
       THEN [g EXCEPT !.roundWins = wins, !.status = "completed", !.winner = w]
       ELSE [g EXCEPT !.roundWins = wins,
                      !.status = "betweenRounds",
                      !.betweenRoundState =
                          [ player1ReadyForNext |-> FALSE,
                            player2ReadyForNext |-> FALSE,
                            betweenRoundStartedAt |-> r.endedAt ]]

\* (mutant) a completion that scores the round a second time
CompleteRoundRescored ==
    /\ round.status = "scoring"
    /\ round' = [round EXCEPT !.status = "completed",
                              !.scoring = ComputeScoring(game, round, Opponent(round.endedBy))]
    /\ game' = RoundCompleted(game, round)
    /\ version' = version + 1
    /\ UNCHANGED <<moves, lastResult, inflight>>
    /\ UNCHANGED annotator

\* scoring -> completed, and the game leaves "active"
CompleteRound ==
    /\ round.status = "scoring"
    /\ round' = [round EXCEPT !.status = "completed"]
    /\ game' = RoundCompleted(game, round)
    /\ version' = version + 1
    /\ UNCHANGED <<moves, lastResult, inflight>>
    /\ UNCHANGED annotator

(* Inputs of the submitted actions. Either player submits Casts and End
   Rounds, in and out of turn; the other actions are submitted by the player
   to move. *)

Pos(l, r) == [leftIndex |-> l, rightIndex |-> r]

\* the intersections played on: a corner and the two next to it, which are the
\* blue sun's and the flower's under Ledgers
PosInputs == {Pos(0, 0), Pos(0, 1), Pos(1, 0)}

\* and one outside the lattice
CastInputs == PosInputs \cup {Pos(LatticeSize, 0)}

\* the sight lines revealed: a charm's and a void's under Ledgers
SightInputs == {0, 2}

\* the swap positions used: two of the first row
SwapColInputs == {0, 1}

\* the clock of an untimed game is never read: its actions arrive MaxElapsed apart
Timestamps ==
    IF Timed(game) THEN {round.turnStartedAt, round.turnStartedAt + MaxElapsed}
    ELSE {round.turnStartedAt + MaxElapsed}

SubmitCast ==
    \E p \in Players, pos \in CastInputs, T \in Timestamps :
        Submit(p, [type |-> "cast", position |-> pos], T)

SubmitTransfer ==
    \E p \in {round.currentTurnPlayer}, from \in PosInputs, to \in PosInputs, T \in Timestamps :
        Submit(p, [type |-> "transfer", fromPosition |-> from, toPosition |-> to], T)

SubmitRecover ==
    \E p \in {round.currentTurnPlayer}, from \in PosInputs, T \in Timestamps :
        Submit(p, [type |-> "recover", fromPosition |-> from], T)

SubmitReveal ==
    \E p \in {round.currentTurnPlayer}, target \in Players, i \in SightInputs, T \in Timestamps :
        Submit(p, [type |-> "reveal", targetPlayer |-> target, sightLineIndex |-> i], T)

SubmitSwap ==
    \E p \in {round.currentTurnPlayer}, col \in SwapColInputs, own \in PosInputs, opp \in PosInputs,
       T \in Timestamps :
        Submit(p, [type |-> "swap", swapRow |-> 0, swapCol |-> col,
                   ownStonePosition |-> own, opponentStonePosition |-> opp], T)

SubmitEndRound ==
    \E p \in Players, T \in Timestamps : Submit(p, [type |-> "endRound"], T)

Next ==
    \/ StartRound
    \/ SubmitCast
    \/ SubmitTransfer
    \/ SubmitRecover
    \/ SubmitReveal
    \/ SubmitSwap
    \/ SubmitEndRound
    \/ CompleteRound

Spec == Init /\ [][Next]_vars

(* Scoring rounds: untimed rounds of either colour assignment, the example
   round of the rules among them, in which the players cast on the charm
   intersections and reveal tiles before one of them ends the round *)

InitScoring ==
    /\ game \in {NewGame(color, Null, OpenEnded) : color \in {"blue", "brown"}}
    /\ \E first \in Players, ledger \in Ledgers \cup {ExampleLedger} :
          round = NewRound(game, first, ledger)
    /\ moves = <<>>
    /\ lastResult = "none"
    /\ version = 0
    /\ inflight = NoRequest
    /\ NoAnnotation

CastOnCharm ==
    \E p \in Players, k \in Charms, T \in Timestamps :
        Submit(p, [type |-> "cast", position |-> CharmLocation(round, k)], T)

RevealTile ==
    \E p \in Players, i \in {0, 1, 2}, T \in Timestamps :
        Submit(p, [type |-> "reveal", targetPlayer |-> Opponent(p), sightLineIndex |-> i], T)

NextScoring ==
    \/ StartRound
    \/ CastOnCharm
    \/ RevealTile
    \/ SubmitEndRound
    \/ CompleteRound

SpecScoring == InitScoring /\ [][NextScoring]_vars

(* Games: rounds of a few turns, each followed by the between-round phase in
   which the players ready up or decline and the readiness window may run
   out. In a round the player to move casts on the flower's intersection or
   ends the round, at once or StartingSeconds after the turn started. *)

Ready(g, p) ==
    IF p = "player1" THEN g.betweenRoundState.player1ReadyForNext
    ELSE g.betweenRoundState.player2ReadyForNext

WithReady(g, p) ==
    IF p = "player1" THEN [g EXCEPT !.betweenRoundState.player1ReadyForNext = TRUE]
    ELSE [g EXCEPT !.betweenRoundState.player2ReadyForNext = TRUE]

\* (mutant) a window that untimed games have too
WindowExpiredByDefault(g, T) ==
    /\ g.status = "betweenRounds"
    /\ T - g.betweenRoundState.betweenRoundStartedAt
          > (IF Timed(g) THEN g.timeControl.betweenRoundSeconds ELSE BetweenRoundSeconds)

\* the window to ready up has run out at T
WindowExpired(g, T) ==
    /\ g.status = "betweenRounds"
    /\ Timed(g)
    /\ T - g.betweenRoundState.betweenRoundStartedAt > g.timeControl.betweenRoundSeconds

\* (mutant) the abandoned game credited to the player who did not ready up
EvaluateTimeoutCreditsIdle(g, T) ==
    IF ~WindowExpired(g, T) THEN g
    ELSE [g EXCEPT !.status = "abandoned",
                   !.winner = IF Ready(g, "player1") /\ ~Ready(g, "player2") THEN "player2"
                              ELSE IF Ready(g, "player2") /\ ~Ready(g, "player1") THEN "player1"
                              ELSE g.winner]

\* evaluateBetweenRoundTimeout: the game abandoned, won by the player who had
\* readied, or the game unchanged
EvaluateBetweenRoundTimeout(g, T) ==
    IF ~WindowExpired(g, T) THEN g
    ELSE [g EXCEPT !.status = "abandoned",
                   !.winner = IF Ready(g, "player1") /\ ~Ready(g, "player2") THEN "player1"
                              ELSE IF Ready(g, "player2") /\ ~Ready(g, "player1") THEN "player2"
                              ELSE g.winner]

\* the game once both players are ready: active again, one more round
NextRoundGame(g) ==
    [g EXCEPT !.status = "active",
              !.roundCount = g.roundCount + 1,
              !.betweenRoundState = Null]

\* (mutant) a next round begun by the player who began the last
NextRoundSameFirst(g, prev, ledger, T) ==
    [ NewRound(g, prev.firstPlayer, ledger) EXCEPT
          !.turnStartedAt = T, !.startedAt = T ]

\* startRound at T: the first player alternates
NextRound(g, prev, ledger, T) ==
    [ NewRound(g, Opponent(prev.firstPlayer), ledger) EXCEPT
          !.turnStartedAt = T, !.startedAt = T ]

InitGame ==
    /\ game \in {NewGame("blue", tc, wc) : tc \in TimeControls, wc \in {OpenEnded, FirstToN}}
    /\ \E first \in Players, ledger \in Ledgers : round = NewRound(game, first, ledger)
    /\ moves = <<>>
    /\ lastResult = "none"
    /\ version = 0
    /\ inflight = NoRequest
    /\ NoAnnotation

GameTimestamps ==
    IF Timed(game) THEN {round.turnStartedAt, round.turnStartedAt + StartingSeconds}
    ELSE {round.turnStartedAt + StartingSeconds}

GameCast ==
    \E T \in GameTimestamps :
        /\ game.status = "active"
        /\ Submit(round.currentTurnPlayer,
                  [type |-> "cast", position |-> CharmLocation(round, "flower")], T)

GameEndRound ==
    \E T \in GameTimestamps :
        /\ game.status = "active"
        /\ Submit(round.currentTurnPlayer, [type |-> "endRound"], T)

\* the last instant of the window to ready up
ReadyTime ==
    game.betweenRoundState.betweenRoundStartedAt
        + (IF Timed(game) THEN game.timeControl.betweenRoundSeconds ELSE MaxElapsed)

\* a player readies up in time; when both are ready the next round is created
ReadyUp(p) ==
    /\ game.status = "betweenRounds"
    /\ ~Ready(game, p)
    /\ Ready(game, Opponent(p)) => game.roundCount < MaxRounds
    /\ IF Ready(game, Opponent(p))
       THEN /\ game' = NextRoundGame(game)
            /\ \E ledger \in Ledgers : round' = NextRound(game', round, ledger, ReadyTime)
            /\ moves' = <<>>
            /\ lastResult' = "none"
            /\ version' = 0
            /\ UNCHANGED inflight
       ELSE /\ game' = WithReady(game, p)
            /\ UNCHANGED <<round, moves, lastResult, version, inflight>>
    /\ UNCHANGED annotator

\* a player declines the next round
Decline(p) ==
    /\ game.status = "betweenRounds"
    /\ ~Ready(game, p)
    /\ game' = [game EXCEPT !.status = "completed"]
    /\ UNCHANGED <<round, moves, lastResult, version, inflight>>
    /\ UNCHANGED annotator

\* the caller polls the between-round timeout, at the end of the window or after it
PollTimeout ==
    \E late \in {0, 1} :
        /\ game.status = "betweenRounds"
        /\ game' = EvaluateBetweenRoundTimeout(game, ReadyTime + late)
        /\ UNCHANGED <<round, moves, lastResult, version, inflight>>
        /\ UNCHANGED annotator

\* the caller polls the clock of the round in progress
PollRoundTimeout ==
    \E T \in GameTimestamps :
        LET res == EvaluateRoundTimeout(game, round, T)
        IN /\ game.status = "active"
           /\ round.status = "active"
           /\ round' = res.round
           /\ moves' = moves \o res.entries
           /\ lastResult' = IF res.outcome = "forced" THEN "forced" ELSE lastResult
           /\ version' = IF res.outcome = "forced" THEN version + 1 ELSE version
           /\ UNCHANGED <<game, inflight>>
           /\ UNCHANGED annotator

NextGame ==
    \/ StartRound
    \/ GameCast
    \/ GameEndRound
    \/ PollRoundTimeout
    \/ CompleteRound
    \/ \E p \in Players : ReadyUp(p)
    \/ \E p \in Players : Decline(p)
    \/ PollTimeout

SpecGame == InitGame /\ [][NextGame]_vars

(* Concurrent callers: two clients have actions validated against the stored
   round, each result tagged with the version of the round it was computed
   from, and store them later; the store is a compare-and-swap on the
   version. The rounds are untimed; the player to move casts, recovers or
   ends the round. *)

InitWriter ==
    /\ game = NewGame("blue", Null, OpenEnded)
    /\ \E first \in Players, ledger \in Ledgers : round = NewRound(game, first, ledger)
    /\ moves = <<>>
    /\ lastResult = "none"
    /\ version = 0
    /\ inflight = NoRequest
    /\ NoAnnotation

WriterActions ==
    {[type |-> "cast", position |-> pos] : pos \in PosInputs}
    \cup {[type |-> "recover", fromPosition |-> Pos(0, 0)]}
    \cup {[type |-> "endRound"]}

\* client c has no request waiting to be stored
Idle(c) == inflight[c].state # "validated"

\* the validator runs against the stored round; a legal action stays in flight
ValidateRequest(c) ==
    \E a \in WriterActions, T \in Timestamps :
        LET p == round.currentTurnPlayer
            res == SubmitAction(game, round, p, a, T)
        IN /\ round.status = "active"
           /\ Idle(c)
           /\ a.type # "endRound" => round.turnNumber <= MaxTurns
           /\ IF res.outcome = "rejected"
              THEN /\ lastResult' = "rejected"
                   /\ UNCHANGED inflight
              ELSE /\ inflight' = [inflight EXCEPT ![c] =
                                      [ player |-> p, action |-> a, timestamp |-> T,
                                        version |-> version, state |-> "validated" ]]
                   /\ UNCHANGED lastResult
           /\ UNCHANGED <<game, round, moves, version>>
           /\ UNCHANGED annotator

\* (mutant) a store that does not look at the version
CommitAlways(req, v) == TRUE

\* compare-and-swap: the round is still the one the request was validated against
CommitAllowed(req, v) == req.version = v

\* the request of client c is applied to the stored round, or dropped as stale
CommitRequest(c) ==
    /\ inflight[c].state = "validated"
    /\ IF CommitAllowed(inflight[c], version)
       THEN /\ round' = ApplyAction(game, round, inflight[c].action, inflight[c].timestamp)
            /\ moves' = Append(moves, MoveEntry(round, inflight[c].player, inflight[c].action,
                                                inflight[c].timestamp))
            /\ version' = version + 1
            /\ lastResult' = "accepted"
            /\ inflight' = [inflight EXCEPT ![c].state = "committed"]
       ELSE /\ inflight' = [inflight EXCEPT ![c].state = "stale"]
            /\ lastResult' = "stale"
            /\ UNCHANGED <<round, moves, version>>
    /\ UNCHANGED game
    /\ UNCHANGED annotator

NextWriter ==
    \/ StartRound
    \/ \E c \in Clients : ValidateRequest(c)
    \/ \E c \in Clients : CommitRequest(c)
    \/ CompleteRound

SpecWriter == InitWriter /\ [][NextWriter]_vars

(* Long rounds: untimed rounds played until the reserves are empty. The
   players cast a stone each, then swap the two cast stones up to turn
   MaxSwapTurns, then cast on the first open intersection or on the first
   intersection of the lattice; with LastStones stones or fewer in reserve
   the player to move may reveal a tile; once its reserve is empty it
   transfers or recovers a stone; it may end the round on any turn. *)

InitLong ==
    /\ game = NewGame("blue", Null, OpenEnded)
    /\ \E first \in Players, ledger \in Ledgers : round = NewRound(game, first, ledger)
    /\ moves = <<>>
    /\ lastResult = "none"
    /\ version = 0
    /\ inflight = NoRequest
    /\ NoAnnotation

\* as Submit, for rounds of MaxLongTurns turns
SubmitLong(p, a, T) ==
    LET res == SubmitAction(game, round, p, a, T)
    IN /\ round.status # "setup"
       /\ a.type # "endRound" => round.turnNumber <= MaxLongTurns
       /\ round' = res.round
       /\ moves' = moves \o res.entries
       /\ lastResult' = res.outcome
       /\ version' = IF res.outcome = "rejected" THEN version ELSE version + 1
       /\ UNCHANGED <<game, inflight>>
       /\ UNCHANGED annotator

\* the open intersections and swap positions, numbered row by row
OpenCells(b) == {c \in Idx \X Idx : b.lattice[c[1]][c[2]] = 0}

OpenSwapSlots(b) ==
    {s \in (0 .. (SwapRows - 1)) \X (0 .. (SwapCols - 1)) : b.swapPositions[s[1]][s[2]] = 0}

FirstOpenCell(b) ==
    CHOOSE c \in OpenCells(b) :
        \A d \in OpenCells(b) : c[1] * LatticeSize + c[2] <= d[1] * LatticeSize + d[2]

FirstOpenSwapSlot(b) ==
    CHOOSE s \in OpenSwapSlots(b) :
        \A t \in OpenSwapSlots(b) : s[1] * SwapCols + s[2] <= t[1] * SwapCols + t[2]

LongCast ==
    \E pos \in {Pos(FirstOpenCell(round.boardState)[1], FirstOpenCell(round.boardState)[2]),
                 Pos(0, 0)},
       T \in Timestamps :
        /\ round.turnNumber \notin 3 .. MaxSwapTurns
        /\ SubmitLong(round.currentTurnPlayer, [type |-> "cast", position |-> pos], T)

LongTransfer ==
    \E from \in {Pos(0, 0), Pos(0, 1)},
       to \in {Pos(FirstOpenCell(round.boardState)[1], FirstOpenCell(round.boardState)[2]),
               Pos(0, 0)},
       T \in Timestamps :
        /\ ReserveCount(round.boardState, round.currentTurnPlayer) = 0
        /\ SubmitLong(round.currentTurnPlayer,
                      [type |-> "transfer", fromPosition |-> from, toPosition |-> to], T)

LongRecover ==
    \E from \in {Pos(0, 0), Pos(0, 1)}, T \in Timestamps :
        /\ ReserveCount(round.boardState, round.currentTurnPlayer) = 0
        /\ SubmitLong(round.currentTurnPlayer, [type |-> "recover", fromPosition |-> from], T)

LongSwap ==
    \E own \in {Pos(0, 0), Pos(0, 1)}, opp \in {Pos(0, 0), Pos(0, 1)}, T \in Timestamps :
        /\ round.turnNumber <= MaxSwapTurns
        /\ OpenSwapSlots(round.boardState) # {}
        /\ SubmitLong(round.currentTurnPlayer,
                      [type |-> "swap",
                       swapRow |-> FirstOpenSwapSlot(round.boardState)[1],
                       swapCol |-> FirstOpenSwapSlot(round.boardState)[2],
                       ownStonePosition |-> own, opponentStonePosition |-> opp], T)

LongReveal ==
    \E target \in Players, i \in SightInputs, T \in Timestamps :
        /\ ReserveCount(round.boardState, round.currentTurnPlayer) <= LastStones
        /\ SubmitLong(round.currentTurnPlayer,
                      [type |-> "reveal", targetPlayer |-> target, sightLineIndex |-> i], T)

LongEndRound ==
    \E T \in Timestamps : SubmitLong(round.currentTurnPlayer, [type |-> "endRound"], T)

NextLong ==
    \/ StartRound
    \/ LongCast
    \/ LongTransfer
    \/ LongRecover
    \/ LongSwap
    \/ LongReveal
    \/ LongEndRound
    \/ CompleteRound

SpecLong == InitLong /\ [][NextLong]_vars

(* Shuffled rounds: untimed rounds over every shuffle of the two racks, in
   which the player to move casts on a charm's intersection that is still
   open, or ends the round. *)

\* the shuffles of a rack: one blue sun, one brown sun, one flower, two voids
AllRacks ==
    {t \in [Idx -> Charms \cup {"void"}] :
        \A k \in Charms : Cardinality({i \in Idx : t[i] = k}) = 1}

InitShuffle ==
    /\ game = NewGame("blue", Null, OpenEnded)
    /\ \E t1 \in AllRacks, t2 \in AllRacks :
          round = NewRound(game, "player1", [player1 |-> t1, player2 |-> t2])
    /\ moves = <<>>
    /\ lastResult = "none"
    /\ version = 0
    /\ inflight = NoRequest
    /\ NoAnnotation

ShuffleCast ==
    \E k \in Charms, T \in Timestamps :
        /\ round.status = "active"
        /\ CellAt(round.boardState, CharmLocation(round, k)) = 0
        /\ Submit(round.currentTurnPlayer,
                  [type |-> "cast", position |-> CharmLocation(round, k)], T)

ShuffleEndRound ==
    \E T \in Timestamps :
        /\ round.status = "active"
        /\ Submit(round.currentTurnPlayer, [type |-> "endRound"], T)

NextShuffle ==
    \/ StartRound
    \/ ShuffleCast
    \/ ShuffleEndRound
    \/ CompleteRound

SpecShuffle == InitShuffle /\ [][NextShuffle]_vars

----------------------------------------------------------------------------
(* SVG annotator (svg-annotator.tsx). A node id is the path of `tag[index]`
   segments from the root; here it is the sequence of the segments that
   buildNodeId joins with "/". A patch is a record of the fields it sets. *)

\* the parsed SVG explored: a group holding a path and a nested group of one
\* path, and a path beside it
SvgNodes ==
    { <<"svg[0]">>,
      <<"svg[0]", "g[0]">>,
      <<"svg[0]", "g[0]", "path[0]">>,
      <<"svg[0]", "g[0]", "g[0]">>,
      <<"svg[0]", "g[0]", "g[0]", "path[0]">>,
      <<"svg[0]", "path[0]">> }

\* getDFSOrder(root): a node, then its children's subtrees in order
DfsOrder ==
    << <<"svg[0]">>,
       <<"svg[0]", "g[0]">>,
       <<"svg[0]", "g[0]", "path[0]">>,
       <<"svg[0]", "g[0]", "g[0]">>,
       <<"svg[0]", "g[0]", "g[0]", "path[0]">>,
       <<"svg[0]", "path[0]">> >>

IsPrefix(a, b) == Len(a) <= Len(b) /\ SubSeq(b, 1, Len(a)) = a

\* getDFSOrder(node) without the node itself
Descendants(n) == {d \in SvgNodes : d # n /\ IsPrefix(n, d)}

\* node.isLeaf: no children
IsLeaf(n) == Descendants(n) = {}

EmptyPatch == [f \in {} |-> TRUE]

\* { ...a, ...b }
Spread(a, b) ==
    [f \in DOMAIN a \cup DOMAIN b |-> IF f \in DOMAIN b THEN b[f] ELSE a[f]]

\* rules.get(id) || {}
RuleOf(rs, id) == IF id \in DOMAIN rs THEN rs[id] ELSE EmptyPatch

\* the patches of the first i prefixes of the id, spread in order from the root
RECURSIVE InheritedUpTo(_, _, _)
InheritedUpTo(rs, n, i) ==
    IF i = 0 THEN EmptyPatch
    ELSE Spread(InheritedUpTo(rs, n, i - 1), RuleOf(rs, SubSeq(n, 1, i)))

\* getInheritedPatch: all prefixes, or the proper ones when the node has a patch
GetInheritedPatch(rs, n) ==
    IF n \in DOMAIN rs THEN InheritedUpTo(rs, n, Len(n) - 1)
    ELSE InheritedUpTo(rs, n, Len(n))

\* merged = { ...inherited, ...current }
Merged(rs, n) == Spread(GetInheritedPatch(rs, n), RuleOf(rs, n))

\* a boolean field that is set and true
Truthy(patch, f) == f \in DOMAIN patch /\ patch[f] = TRUE

\* the first loop of validateAll and exportBoardElements
TerminalNodeIds(rs) ==
    {n \in SvgNodes : Truthy(Merged(rs, n), "terminal")}
    \cup UNION {Descendants(n) : n \in {m \in SvgNodes : Truthy(Merged(rs, m), "terminal")}}

Missing(merged, f, text) == IF f \in DOMAIN merged THEN <<>> ELSE <<text>>

IndexCount(merged) ==
    Cardinality({"leftIndex", "rightIndex", "reachesCrossIndex"} \cap DOMAIN merged)

validateElement(merged, isLeafOrTerminal) ==
    IF ~isLeafOrTerminal THEN <<>>
    ELSE IF "zone" \notin DOMAIN merged THEN <<"Missing zone">>
    ELSE IF merged.zone = "swap"
    THEN Missing(merged, "row", "Missing row") \o Missing(merged, "col", "Missing col")
            \o Missing(merged, "shape", "Missing shape")
    ELSE IF merged.zone = "crossing"
    THEN Missing(merged, "area", "Missing area") \o Missing(merged, "shape", "Missing shape")
            \o (IF IndexCount(merged) # 2 THEN <<"Must have exactly 2 indices">> ELSE <<>>)
    ELSE <<>>

\* the second loop of validateAll, over the first i nodes of the DFS order
RECURSIVE ValidatedUpTo(_, _)
ValidatedUpTo(rs, i) ==
    IF i = 0 THEN <<>>
    ELSE LET node == DfsOrder[i]
             merged == Merged(rs, node)
             isTerminal == Truthy(merged, "terminal")
             isDescendantOfTerminal == node \in TerminalNodeIds(rs) /\ ~isTerminal
             isLeafOrTerminal == IsLeaf(node) \/ isTerminal
             nodeErrors == validateElement(merged, isLeafOrTerminal)
         IN ValidatedUpTo(rs, i - 1)
              \o (IF isDescendantOfTerminal THEN <<>>
                  ELSE IF ~isLeafOrTerminal THEN <<>>
                  ELSE IF Truthy(merged, "skip") THEN <<>>
                  ELSE IF Len(nodeErrors) > 0
                  THEN << [nodeId |-> node, errors |-> nodeErrors] >>
                  ELSE <<>>)

validateAll(rs) == ValidatedUpTo(rs, Len(DfsOrder))

\* merged without skip and terminal
ElementData(merged) == [f \in DOMAIN merged \ {"skip", "terminal"} |-> merged[f]]

\* the second loop of exportBoardElements, over the first i nodes of the DFS order
RECURSIVE ExportedUpTo(_, _)
ExportedUpTo(rs, i) ==
    IF i = 0 THEN <<>>
    ELSE LET node == DfsOrder[i]
             merged == Merged(rs, node)
             isTerminal == Truthy(merged, "terminal")
             isDescendantOfTerminal == node \in TerminalNodeIds(rs) /\ ~isTerminal
         IN ExportedUpTo(rs, i - 1)
              \o (IF ~IsLeaf(node) /\ ~isTerminal THEN <<>>
                  ELSE IF isDescendantOfTerminal THEN <<>>
                  ELSE IF "zone" \notin DOMAIN merged THEN <<>>
                  ELSE IF Truthy(merged, "skip") THEN <<>>
                  ELSE << [id |-> node, tagName |-> node[Len(node)],
                           elementData |-> ElementData(merged)] >>)

exportBoardElements(rs) == ExportedUpTo(rs, Len(DfsOrder))

(* The patches entered in the editor and the rule lists loaded *)

SwapPlus == [zone |-> "swap", row |-> 0, col |-> 0, shape |-> "plus"]

PatchInputs ==
    { EmptyPatch,
      [terminal |-> TRUE],
      Spread(SwapPlus, [terminal |-> TRUE]),
      SwapPlus,
      [zone |-> "crossing", area |-> "reveal", shape |-> "eye", leftIndex |-> 0],
      [skip |-> TRUE] }

\* a terminal group whose nested group is marked not terminal, with a rule for
\* a node the SVG does not have; and a list with an empty patch
RuleListInputs ==
    { << [nodeId |-> <<"svg[0]", "g[0]">>, patch |-> Spread(SwapPlus, [terminal |-> TRUE])],
         [nodeId |-> <<"svg[0]", "g[0]", "g[0]">>, patch |-> [terminal |-> FALSE]],
         [nodeId |-> <<"svg[0]", "g[1]">>, patch |-> SwapPlus] >>,
      << [nodeId |-> <<"svg[0]", "path[0]">>, patch |-> EmptyPatch] >> }

\* the map handleLoadRules builds from the first i rules of the list
RECURSIVE LoadedUpTo(_, _)
LoadedUpTo(parsed, i) ==
    IF i = 0 THEN <<>>
    ELSE LET before == LoadedUpTo(parsed, i - 1)
             rule == parsed[i]
         IN IF rule.nodeId \notin SvgNodes THEN before
            ELSE IF DOMAIN rule.patch = {} THEN before
            ELSE [n \in DOMAIN before \cup {rule.nodeId} |->
                      IF n = rule.nodeId THEN rule.patch ELSE before[n]]

\* the state after an SVG has been loaded: no rules, every leaf lacks a zone
InitAnnotator ==
    /\ game = NewGame("blue", Null, OpenEnded)
    /\ round = NewRound(game, "player1", ExampleLedger)
    /\ moves = <<>>
    /\ lastResult = "none"
    /\ version = 0
    /\ inflight = NoRequest
    /\ rules = <<>>
    /\ validationErrors = validateAll(<<>>)
    /\ elements = <<>>

\* the editor stores the patch of the current node; validation runs again
handlePatchChange(n, patch) ==
    LET next == IF DOMAIN patch = {}
                THEN [m \in DOMAIN rules \ {n} |-> rules[m]]
                ELSE [m \in DOMAIN rules \cup {n} |-> IF m = n THEN patch ELSE rules[m]]
    IN /\ Cardinality(DOMAIN next) <= MaxRules
       /\ rules' = next
       /\ validationErrors' = validateAll(next)
       /\ UNCHANGED elements
       /\ UNCHANGED engine

handleLoadRules(parsed) ==
    /\ rules' = LoadedUpTo(parsed, Len(parsed))
    /\ validationErrors' = validateAll(rules')
    /\ UNCHANGED elements
    /\ UNCHANGED engine

ExportBoardElements ==
    /\ elements' = exportBoardElements(rules)
    /\ UNCHANGED <<rules, validationErrors>>
    /\ UNCHANGED engine

NextAnnotator ==
    \/ \E n \in SvgNodes, patch \in PatchInputs : handlePatchChange(n, patch)
    \/ \E parsed \in RuleListInputs : handleLoadRules(parsed)
    \/ ExportBoardElements

SpecAnnotator == InitAnnotator /\ [][NextAnnotator]_vars

----------------------------------------------------------------------------
(* Views of the board used by the properties *)

Board == round.boardState

SwapSlots == (0 .. (SwapRows - 1)) \X (0 .. (SwapCols - 1))

OnLattice(b, p) ==
    Cardinality({c \in Idx \X Idx : b.lattice[c[1]][c[2]] = PlayerNum(p)})

\* p's sacrificed stones: on reveal positions of the opponent's side and on swap positions
SacrificedReveal(b, p) == Cardinality({i \in Idx : RevealPositions(b, Opponent(p))[i]})

SacrificedSwap(b, p) ==
    Cardinality({s \in SwapSlots : b.swapPositions[s[1]][s[2]] = PlayerNum(p)})

Sacrificed(b, p) == SacrificedReveal(b, p) + SacrificedSwap(b, p)

OccupiedPlaces(b) ==
    Cardinality({c \in Idx \X Idx : b.lattice[c[1]][c[2]] # 0})
    + Cardinality({<<p, i>> \in Players \X Idx : RevealPositions(b, p)[i]})
    + Cardinality({s \in SwapSlots : b.swapPositions[s[1]][s[2]] # 0})

----------------------------------------------------------------------------
(* C1: Conservation. In every reachable round state each player's stones in
   reserve, on the lattice and sacrificed (on reveal and swap positions)
   add up to 8. *)
C1_Conservation ==
    \A p \in Players :
        ReserveCount(Board, p) + OnLattice(Board, p) + Sacrificed(Board, p) = NumStones

\* a state in which one player has stones in all three kinds of place
C1_Witness ==
    /\ \E p \in Players :
          /\ ReserveCount(Board, p) > 0
          /\ OnLattice(Board, p) > 0
          /\ Sacrificed(Board, p) > 0
    /\ \E p \in Players : SacrificedSwap(Board, p) > 0
    /\ round.status = "completed"

(* C2: Exclusivity. Every place of the board (lattice cell, reveal position,
   swap position) holds at most one stone and every stone is in one place:
   each place stores a single owner, and the stones that have left the two
   reserves are exactly as many as the occupied places, so no stone was put
   on a place that already held one. *)
C2_Exclusivity ==
    /\ \A c \in Idx \X Idx : Board.lattice[c[1]][c[2]] \in {0, 1, 2}
    /\ \A s \in SwapSlots : Board.swapPositions[s[1]][s[2]] \in {0, 1, 2}
    /\ \A p \in Players : ReserveCount(Board, p) \in 0 .. NumStones
    /\ (NumStones - ReserveCount(Board, "player1"))
         + (NumStones - ReserveCount(Board, "player2")) = OccupiedPlaces(Board)

\* both players have cast, and an action of the player to move has just been
\* rejected on a board where a Cast onto a full cell is refused
C2_Witness ==
    /\ OnLattice(Board, "player1") > 0 /\ OnLattice(Board, "player2") > 0
    /\ lastResult = "rejected"
    /\ round.status = "active"
    /\ \E pos \in PosInputs :
          ValidateCast(Board, round.currentTurnPlayer, [type |-> "cast", position |-> pos])
              = "TargetOccupied"

(* C3: Sacrifice irreversibility. Within a round a stone sacrificed on a
   reveal position or a swap position stays there: no step empties an
   occupied reveal or swap position or changes the owner of the stone on it,
   and no player's sacrificed count decreases. *)
C3_SacrificeIrreversible ==
    [][ /\ \A p \in Players, i \in Idx :
              RevealPositions(Board, p)[i] => RevealPositions(Board', p)[i]
        /\ \A s \in SwapSlots :
              Board.swapPositions[s[1]][s[2]] # 0
                  => Board'.swapPositions[s[1]][s[2]] = Board.swapPositions[s[1]][s[2]]
        /\ \A p \in Players : Sacrificed(Board', p) >= Sacrificed(Board, p) ]_vars

\* one player has sacrificed twice by Reveal, and the round went on to scoring
C3_Witness ==
    /\ \E p \in Players : SacrificedReveal(Board, p) >= 2
    /\ round.status = "completed"

(* C4: Monotonic reveal. Once the revealed bit of a player's sight line is
   true it is true in every later state of the round. *)
C4_MonotonicReveal ==
    [][ \A p \in Players, i \in Idx :
            round.revealedSightTiles[p][i] => round'.revealedSightTiles[p][i] ]_vars

\* two tiles of one player are revealed, and the round went on to scoring
C4_Witness ==
    /\ \E p \in Players :
          Cardinality({i \in Idx : round.revealedSightTiles[p][i]}) >= 2
    /\ round.status = "completed"

----------------------------------------------------------------------------
(* Submissions tried against every reachable state by the properties below:
   legal and illegal, of either player, on time and late *)

ProbeActions ==
    {[type |-> "cast", position |-> pos] : pos \in CastInputs}
    \cup {[type |-> "transfer", fromPosition |-> from, toPosition |-> to] :
              from \in PosInputs, to \in {Pos(0, 0), Pos(0, 1)}}
    \cup {[type |-> "recover", fromPosition |-> from] : from \in CastInputs}
    \cup {[type |-> "reveal", targetPlayer |-> t, sightLineIndex |-> i] :
              t \in Players, i \in {0, LatticeSize}}
    \cup {[type |-> "swap", swapRow |-> 0, swapCol |-> col,
           ownStonePosition |-> own, opponentStonePosition |-> Pos(0, 1)] :
              col \in {0, SwapCols}, own \in PosInputs}
    \cup {[type |-> "endRound"]}

ProbeTimestamps ==
    { round.turnStartedAt, round.turnStartedAt + MaxElapsed,
      round.turnStartedAt + MaxElapsed + StartingSeconds }

\* the round as StartRound left it
InitialRoundState ==
    [ NewRound(game, round.firstPlayer,
               [player1 |-> round.player1SightTiles, player2 |-> round.player2SightTiles])
      EXCEPT !.status = "active" ]

(* C5: Replay determinism. Replaying the Move log, a forced End Round entry
   included, from the round's initial state gives exactly the live round:
   lattice, reserves, reveal and swap positions, revealed bits, ledgers, turn
   cursor, clocks and scoring (the live round may since have been marked
   completed, which is no move). *)
C5_ReplayDeterminism ==
    round.status # "setup" =>
        LET replayed == Replay(game, InitialRoundState, moves)
        IN IF round.status = "completed"
           THEN [replayed EXCEPT !.status = "completed"] = round
           ELSE replayed = round

\* a timed round of three turns that a timeout ended
C5_Witness ==
    /\ Len(moves) >= 3
    /\ round.status = "scoring"
    /\ lastResult = "forced"
    /\ moves[Len(moves)].action.type = "endRound"
    /\ \E i \in 1 .. Len(moves) : moves[i].action.type = "swap"

(* C6: No partial failure. A rejected submitAction returns a reason and the
   round it was given, and appends nothing to the log; submitting the same
   action again against that round is rejected in the same way; and a step
   of the system that ends in a rejection changes neither the round nor the
   log. *)
C6_RejectionLeavesState ==
    \A p \in Players, a \in ProbeActions, T \in ProbeTimestamps :
        LET res == SubmitAction(game, round, p, a, T)
        IN res.outcome = "rejected" =>
              /\ res.reason # "none"
              /\ res.round = round
              /\ res.entries = <<>>
              /\ SubmitAction(game, res.round, p, a, T) = res

C7_Original ==
    \A p \in Players, a \in ProbeActions, T \in ProbeTimestamps :
        LET res == SubmitAction(game, round, p, a, T)
        IN round.status # "setup" =>
           /\ p # round.currentTurnPlayer
                => (res.outcome = "rejected" /\ res.reason = "NotYourTurn")
           /\ round.status # "active"
                => (res.outcome = "rejected" /\ res.reason = "WrongRoundPhase")

(* C7 (amended): every action on a round that is not active is rejected with
   WrongRoundPhase; on an active round whose player to move has time left,
   every action of the other player is rejected with NotYourTurn; and no
   action is accepted once End Round has been: an End Round entry is the
   last entry of the log. *)
C7_TurnAndPhaseGating ==
    /\ \A p \in Players, a \in ProbeActions, T \in ProbeTimestamps :
          LET res == SubmitAction(game, round, p, a, T)
              onTime == \/ game.timeControl = Null
                        \/ round.timeRemaining[round.currentTurnPlayer]
                              - (T - round.turnStartedAt) > 0
          IN /\ round.status # "active"
                  => (res.outcome = "rejected" /\ res.reason = "WrongRoundPhase")
             /\ (round.status = "active" /\ onTime /\ p # round.currentTurnPlayer)
                  => (res.outcome = "rejected" /\ res.reason = "NotYourTurn")
    /\ \A i \in 1 .. Len(moves) : moves[i].action.type = "endRound" => i = Len(moves)
    /\ round.status \in {"scoring", "completed"}
          <=> (moves # <<>> /\ moves[Len(moves)].action.type = "endRound")

\* an action was rejected after the round's End Round, following two turns
C7_Witness ==
    /\ round.status = "scoring"
    /\ lastResult = "rejected"
    /\ Len(moves) >= 3
    /\ round.endedBy = round.currentTurnPlayer

(* C8: Timeout mid-round. In a timed game, when an action of the player to
   move arrives at T and that player's remaining time minus
   (T - turnStartedAt) is <= 0, the action is not applied: the outcome is an
   End Round by that player, logged as such, and the round is scored on the
   lattice, reserves, positions and revealed bits exactly as they stood. *)
C8_TimeoutForcesEndRound ==
    \A a \in ProbeActions, T \in ProbeTimestamps :
        LET p == round.currentTurnPlayer
            res == SubmitAction(game, round, p, a, T)
        IN ( /\ round.status = "active"
             /\ game.timeControl # Null
             /\ round.timeRemaining[p] - (T - round.turnStartedAt) <= 0 )
           => /\ res.outcome = "forced"
              /\ res.round.boardState = round.boardState
              /\ res.round.revealedSightTiles = round.revealedSightTiles
              /\ res.round.status = "scoring"
              /\ res.round.endedBy = p
              /\ res.round.currentTurnPlayer = p
              /\ res.round.turnNumber = round.turnNumber
              /\ res.entries = << [ turnNumber |-> round.turnNumber, player |-> p,
                                    action |-> [type |-> "endRound"], timestamp |-> T ] >>
              /\ res.round.scoring = ComputeScoring(game, round, p)

\* a timeout has just ended a round in which stones stand on the lattice
C8_Witness ==
    /\ lastResult = "forced"
    /\ round.status = "scoring"
    /\ round.timeRemaining[round.endedBy] <= 0
    /\ OnLattice(Board, "player1") + OnLattice(Board, "player2") >= 2

(* C9: Winner and tie-break. A round that has been ended is scored and has a
   winner, player1 or player2: the player with strictly more points, and on
   equal points the opponent of the player who ended the round, by choice or
   by timeout. *)
C9_WinnerAndTieBreak ==
    round.status \in {"scoring", "completed"} =>
        /\ round.scoring # Null
        /\ round.endedBy \in Players
        /\ LET s == round.scoring
           IN /\ s.winner \in Players
              /\ s.points.player1 > s.points.player2 => s.winner = "player1"
              /\ s.points.player2 > s.points.player1 => s.winner = "player2"
              /\ s.points.player1 = s.points.player2
                    => (s.winner # round.endedBy /\ s.winner = Opponent(round.endedBy))

\* a timeout ended a round on equal points, both below zero
C9_Witness ==
    /\ round.status = "scoring"
    /\ lastResult = "forced"
    /\ round.scoring.points.player1 = round.scoring.points.player2
    /\ round.scoring.points.player1 < 0
    /\ round.scoring.winner = Opponent(round.endedBy)

\* the points of the rules' table for player p capturing charm k, written out
TableAward(p, k) ==
    LET blue == IF p = "player1" THEN game.player1Color = "blue"
                ELSE game.player1Color = "brown"
    IN CASE k = "flower" -> 10
         [] k = "blueSun" -> IF blue THEN 15 ELSE 5
         [] k = "brownSun" -> IF blue THEN 5 ELSE 15

\* the owner (0, 1 or 2) of the intersection where the sight lines of k meet
CharmCellOwner(k) ==
    LET L == CHOOSE i \in Idx : round.player1SightTiles[i] = k
        R == CHOOSE i \in Idx : round.player2SightTiles[i] = k
    IN round.boardState.lattice[L][R]

Award(p, k) == IF CharmCellOwner(k) = PlayerNum(p) THEN TableAward(p, k) ELSE 0

\* the example round of the rules: blue sun under player2, flower under player1,
\* brown sun uncaptured, one void revealed by player1
ExampleRoundScored ==
    /\ round.status \in {"scoring", "completed"}
    /\ game.player1Color = "blue"
    /\ round.player1SightTiles = ExampleLedger.player1
    /\ round.player2SightTiles = ExampleLedger.player2
    /\ round.boardState.lattice[2][1] = 2
    /\ round.boardState.lattice[4][0] = 0
    /\ round.boardState.lattice[0][3] = 1
    /\ round.scoring.revealedVoidsByPlayer = [player1 |-> 1, player2 |-> 0]

(* C10: Charm scoring. For each charm k, with L and R its indices in the two
   racks, the owner of the stone on (L, R) captures k and is awarded 15 for
   the sun of its own colour, 10 for the flower and 5 for the opponent's sun;
   an empty intersection awards nothing; a player's points are these awards
   less the voids it revealed (the example round scores 9 to 5). *)
C10_CharmScoring ==
    round.status \in {"scoring", "completed"} =>
        /\ \A p \in Players :
              /\ round.scoring.capturedCharms[p]
                    = {k \in Charms : CharmCellOwner(k) = PlayerNum(p)}
              /\ round.scoring.points[p] + round.scoring.revealedVoidsByPlayer[p]
                    = Award(p, "blueSun") + Award(p, "brownSun") + Award(p, "flower")
        /\ ExampleRoundScored =>
              /\ round.scoring.points = [player1 |-> 9, player2 |-> 5]
              /\ round.scoring.winner = "player1"

\* the example round of the rules has been played and scored
C10_Witness == ExampleRoundScored

----------------------------------------------------------------------------
\* the Reveal entries of the log made by p whose target tile is a void
VoidRevealsInLog(p) ==
    {i \in 1 .. Len(moves) :
        /\ moves[i].action.type = "reveal"
        /\ moves[i].player = p
        /\ SightTiles(round, moves[i].action.targetPlayer)[moves[i].action.sightLineIndex]
              = "void"}

(* C11: Void penalty. When the round is scored, the voids counted against a
   player are exactly the Reveal actions of the log which that player made
   and whose target tile is a void, the player's points are its charm awards
   less one per such Reveal, reveals of its own void tiles by the opponent
   cost it nothing, and the points are not floored at zero. *)
C11_VoidPenalty ==
    round.status \in {"scoring", "completed"} =>
        \A p \in Players :
            /\ round.scoring.revealedVoidsByPlayer[p] = Cardinality(VoidRevealsInLog(p))
            /\ round.scoring.points[p]
                  = Award(p, "blueSun") + Award(p, "brownSun") + Award(p, "flower")
                      - Cardinality(VoidRevealsInLog(p))
            /\ (CapturedCharms(round, p) = {} /\ VoidRevealsInLog(p) # {})
                  => round.scoring.points[p] < 0

\* a scored round in which one player revealed a void and a charm of the other,
\* who revealed nothing and cast on a charm: the revealer is below zero, the
\* owner of the tiles is not
C11_Witness ==
    /\ round.status = "scoring"
    /\ \E p \in Players :
          /\ Cardinality(VoidRevealsInLog(p)) = 1
          /\ SacrificedReveal(Board, p) = 2
          /\ round.scoring.points[p] = 0 - 1
          /\ SacrificedReveal(Board, Opponent(p)) = 0
          /\ round.scoring.points[Opponent(p)] > 0
          /\ round.scoring.revealedVoidsByPlayer[Opponent(p)] = 0

----------------------------------------------------------------------------
\* the last entry of the log, when it is a Swap that the player now waiting made
LastSwap == moves[Len(moves)].action

SwapJustMade ==
    /\ round.status = "active"
    /\ moves # <<>>
    /\ moves[Len(moves)].action.type = "swap"

\* the lattice as it was before the last entry of the log
LatticeBeforeLastMove ==
    Replay(game, InitialRoundState, SubSeq(moves, 1, Len(moves) - 1)).boardState.lattice

\* the Swap of the same two stones by the player to move, on swap position s
SwapBack(s) ==
    [ type |-> "swap", swapRow |-> s[1], swapCol |-> s[2],
      ownStonePosition |-> LastSwap.ownStonePosition,
      opponentStonePosition |-> LastSwap.opponentStonePosition ]

(* C12: Swap undo. Right after an accepted Swap, as long as the player to
   move has a stone in reserve, its Swap of the same two intersections on
   any empty swap position is accepted and leaves the lattice exactly as it
   was before the first Swap; this holds after every Swap of the round,
   re-swaps included. *)
C12_SwapUndo ==
    (SwapJustMade /\ ReserveCount(Board, round.currentTurnPlayer) > 0) =>
        \A s \in OpenSwapSlots(Board) :
            LET res == SubmitAction(game, round, round.currentTurnPlayer, SwapBack(s),
                                    round.turnStartedAt)
            IN /\ res.outcome = "accepted"
               /\ res.round.boardState.lattice = LatticeBeforeLastMove
               /\ res.round.boardState.swapPositions[s[1]][s[2]]
                     = PlayerNum(round.currentTurnPlayer)

\* two casts, then the same two stones swapped four times running: the second
\* undo has just put them back where they were cast
C12_Witness ==
    /\ Len(moves) = 6
    /\ \A i \in 3 .. 6 : moves[i].action.type = "swap"
    /\ round.status = "active"
    /\ Board.lattice[0][0] = PlayerNum(moves[1].player)
    /\ Board.lattice[0][1] = PlayerNum(moves[2].player)
    /\ SacrificedSwap(Board, "player1") = 2 /\ SacrificedSwap(Board, "player2") = 2

(* C13: EndRound is always available. In every active round state an End
   Round of the player to move is accepted and takes the round to scoring,
   on the first turn and with an empty reserve alike; a round leaves the
   active phase only by an End Round entry in the log and no End Round is
   forced, so an empty reserve ends nothing; and the player to move, with or
   without reserve stones, may transfer and recover its cast stones. *)
C13_EndRoundAvailable ==
    /\ round.status = "active" =>
          LET p == round.currentTurnPlayer
              res == SubmitAction(game, round, p, [type |-> "endRound"],
                                  round.turnStartedAt + MaxElapsed)
          IN /\ res.outcome = "accepted"
             /\ res.round.status = "scoring"
             /\ res.round.endedBy = p
             /\ res.round.boardState = round.boardState
             /\ \A c \in Idx \X Idx :
                   Board.lattice[c[1]][c[2]] = PlayerNum(p) =>
                       /\ Validate(Board, p, [type |-> "recover",
                                               fromPosition |-> Pos(c[1], c[2])]) = "legal"
                       /\ \A d \in OpenCells(Board) :
                             Validate(Board, p, [type |-> "transfer",
                                                 fromPosition |-> Pos(c[1], c[2]),
                                                 toPosition |-> Pos(d[1], d[2])]) = "legal"
    /\ round.status \in {"setup", "active"}
          <=> ~(moves # <<>> /\ moves[Len(moves)].action.type = "endRound")
    /\ lastResult # "forced"

\* a player with an empty reserve has just ended the round on its own turn
C13_Witness ==
    /\ round.status = "scoring"
    /\ lastResult = "accepted"
    /\ ReserveCount(Board, round.endedBy) = 0
    /\ ReserveCount(Board, Opponent(round.endedBy)) = 0
    /\ Len(moves) = 2 * NumStones + 1

----------------------------------------------------------------------------
\* the place of a phase in setup -> active -> scoring -> completed
PhaseRank(status) ==
    CASE status = "setup" -> 0
      [] status = "active" -> 1
      [] status = "scoring" -> 2
      [] status = "completed" -> 3

\* the scoring record is there from the scoring phase on
ScoredFromScoringOn == (round.scoring = Null) <=> (round.status \in {"setup", "active"})

(* C14: Round phases are strictly forward. Every step leaves the phase of the
   round where it is or moves it to the next phase of setup -> active ->
   scoring -> completed; the scoring record is written by the step that
   enters scoring, from the round as it stood, and by no other step; and
   the step that enters scoring appends an End Round entry and leaves the
   board state and the revealed bits unchanged. *)
C14_PhasesForward ==
    /\ []ScoredFromScoringOn
    /\ [][ /\ PhaseRank(round'.status) \in {PhaseRank(round.status), PhaseRank(round.status) + 1}
           /\ round'.scoring # round.scoring
                 => /\ round.status = "active" /\ round'.status = "scoring"
                    /\ round.scoring = Null
                    /\ round'.scoring = ComputeScoring(game, round, round'.endedBy)
           /\ (round.status = "active" /\ round'.status = "scoring")
                 => /\ round'.scoring # Null
                    /\ round'.boardState = round.boardState
                    /\ round'.revealedSightTiles = round.revealedSightTiles
                    /\ Len(moves') = Len(moves) + 1
                    /\ moves'[Len(moves')].action.type = "endRound" ]_vars

\* a round that went through the four phases with stones cast and sacrificed,
\* ended on equal points
C14_Witness ==
    /\ round.status = "completed"
    /\ Len(moves) >= 3
    /\ OccupiedPlaces(Board) >= 2
    /\ round.scoring.points.player1 = round.scoring.points.player2

----------------------------------------------------------------------------
\* the players whose ready flag is set
ReadyPlayers(g) == {p \in Players : Ready(g, p)}

\* in the window's last instant nothing happens; after it the game is abandoned
\* and, when exactly one player is ready, won by that player
AbandonedAfterWindow ==
    (game.status = "betweenRounds" /\ Timed(game)) =>
        LET started == game.betweenRoundState.betweenRoundStartedAt
            window == game.timeControl.betweenRoundSeconds
        IN /\ EvaluateBetweenRoundTimeout(game, started + window) = game
           /\ \A late \in 1 .. MaxElapsed :
                 LET g == EvaluateBetweenRoundTimeout(game, started + window + late)
                 IN /\ g.status = "abandoned"
                    /\ g.roundWins = game.roundWins
                    /\ \A p \in Players :
                          ReadyPlayers(game) = {p} => g.winner = p

(* C15: Abandonment. In a timed game between rounds, the timeout evaluated
   later than betweenRoundStartedAt + betweenRoundSeconds abandons the game
   and, when exactly one player is ready, credits the win to that player;
   a step in which a clock runs out in the middle of a round is a forced End
   Round that takes the round to scoring and leaves the game untouched and
   active; and a game becomes abandoned only from betweenRounds. *)
C15_Abandonment ==
    /\ []AbandonedAfterWindow
    /\ [][ /\ (round.status = "active" /\ lastResult' = "forced")
                 => /\ game' = game
                    /\ game.status = "active"
                    /\ round'.status = "scoring"
           /\ (game'.status = "abandoned" /\ game.status # "abandoned")
                 => /\ game.status = "betweenRounds"
                    /\ Timed(game)
                    /\ round.status = "completed"
                    /\ \A p \in Players : ReadyPlayers(game) = {p} => game'.winner = p ]_vars

\* a clock ran out in the second round, the round was scored and completed,
\* one player readied, and the game was abandoned to that player
C15_Witness ==
    /\ game.status = "abandoned"
    /\ game.roundCount = 2
    /\ lastResult = "forced"
    /\ round.status = "completed"
    /\ \E p \in Players : ReadyPlayers(game) = {p} /\ game.winner = p

(* C16: Untimed games. When timeControl is null the round keeps no
   remaining-time counters, no submitted action, however late, is replaced
   by a forced End Round or leaves counters behind, and no evaluation of the
   between-round timeout, however late, changes the game; so the game is
   never abandoned. *)
C16_Untimed ==
    ~Timed(game) =>
        /\ round.timeRemaining = Null
        /\ lastResult # "forced"
        /\ game.status # "abandoned"
        /\ \A p \in Players, a \in ProbeActions, T \in ProbeTimestamps :
              LET res == SubmitAction(game, round, p, a, T)
              IN /\ res.outcome # "forced"
                 /\ res.round.timeRemaining = Null
        /\ game.status = "betweenRounds" =>
              \A late \in 0 .. (BetweenRoundSeconds + MaxElapsed) :
                  EvaluateBetweenRoundTimeout(
                      game, game.betweenRoundState.betweenRoundStartedAt + late) = game

\* an untimed game in its third round, every action of which arrived
\* StartingSeconds after the turn started, waiting between rounds
C16_Witness ==
    /\ ~Timed(game)
    /\ game.status = "betweenRounds"
    /\ game.roundCount = 3
    /\ Len(moves) >= 2
    /\ round.endedAt >= 3 * StartingSeconds
    /\ ReadyPlayers(game) # {}

----------------------------------------------------------------------------
\* the clients whose request was stored
Committed == {c \in Clients : inflight[c].state = "committed"}

\* the occupancy invariants hold, and no two stored requests were validated
\* against the same version of the round
CommittedStatesSound ==
    /\ \A p \in Players :
          ReserveCount(Board, p) + OnLattice(Board, p) + Sacrificed(Board, p) = NumStones
    /\ (NumStones - ReserveCount(Board, "player1"))
         + (NumStones - ReserveCount(Board, "player2")) = OccupiedPlaces(Board)
    /\ \A c, d \in Committed : c # d => inflight[c].version # inflight[d].version
    /\ \A i \in 1 .. Len(moves) : moves[i].turnNumber = i

(* C17: Single writer. When a validated result is stored only if the round's
   version still equals the one it was validated against, every store
   consumes that version, so of two actions validated against the same
   version at most one is stored and the other is dropped as stale, and
   Conservation and Exclusivity hold in every stored state. (Storing without
   the comparison breaks them: that is the model with CommitAlways for
   CommitAllowed.) *)
C17_SingleWriter ==
    /\ []CommittedStatesSound
    /\ [][ \A c \in Clients :
              (inflight[c].state = "validated" /\ inflight'[c].state = "committed")
              => /\ inflight[c].version = version
                 /\ version' = version + 1
                 /\ \A d \in Clients \ {c} :
                       (inflight[d].state = "validated" /\ inflight[d].version = version)
                           => inflight'[d].state = "validated" ]_vars

\* two casts on the same intersection were validated against the same round:
\* one was stored, the other dropped as stale, and play went on
C17_Witness ==
    /\ \E c \in Clients, d \in Clients :
          /\ inflight[c].state = "committed" /\ inflight[d].state = "stale"
          /\ inflight[c].version = inflight[d].version
          /\ inflight[c].action = inflight[d].action
          /\ inflight[c].action.type = "cast"
    /\ lastResult = "stale"
    /\ Len(moves) >= 2

----------------------------------------------------------------------------
\* entry i of the log is turn i, made by the first player on odd turns and by
\* the other on even turns; the turn cursor is one past the actions that
\* passed the turn
LogAlternates ==
    /\ \A i \in 1 .. Len(moves) :
          /\ moves[i].turnNumber = i
          /\ moves[i].player = IF i % 2 = 1 THEN round.firstPlayer
                               ELSE Opponent(round.firstPlayer)
    /\ round.turnNumber
          = 1 + Cardinality({i \in 1 .. Len(moves) : moves[i].action.type # "endRound"})
    /\ round.currentTurnPlayer = IF round.turnNumber % 2 = 1 THEN round.firstPlayer
                                 ELSE Opponent(round.firstPlayer)

(* C18: Turn alternation and logging. A step that accepts an action, or
   forces an End Round, appends exactly one entry to the log, and every
   other step leaves the log and the turn cursor alone; when the entry is
   not an End Round, currentTurnPlayer flips and turnNumber grows by one,
   and when it is, neither changes; so the turn numbers of the log are
   1, 2, 3, ... and its players alternate from the round's firstPlayer. *)
C18_TurnAlternation ==
    /\ []LogAlternates
    /\ [][ /\ lastResult' \in {"accepted", "forced"} /\ round' # round
                 /\ round.status = "active"
                 => Len(moves') = Len(moves) + 1
           /\ moves' # moves
                 => /\ Len(moves') = Len(moves) + 1
                    /\ SubSeq(moves', 1, Len(moves)) = moves
                    /\ lastResult' \in {"accepted", "forced"}
                    /\ IF moves'[Len(moves')].action.type = "endRound"
                       THEN /\ round'.currentTurnPlayer = round.currentTurnPlayer
                            /\ round'.turnNumber = round.turnNumber
                       ELSE /\ round'.currentTurnPlayer = Opponent(round.currentTurnPlayer)
                            /\ round'.turnNumber = round.turnNumber + 1
           /\ moves' = moves
                 => /\ round'.currentTurnPlayer = round.currentTurnPlayer
                    /\ round'.turnNumber = round.turnNumber ]_vars

\* three turns were played and a timeout then ended the round: four entries
C18_Witness ==
    /\ Len(moves) = 4
    /\ moves[4].action.type = "endRound"
    /\ lastResult = "forced"
    /\ round.turnNumber = 4
    /\ round.currentTurnPlayer = Opponent(round.firstPlayer)

----------------------------------------------------------------------------
\* the intersections of the lattice
LatticeCells == {Pos(c[1], c[2]) : c \in Idx \X Idx}

\* what submitAction answers the player to move, on time
Answer(a) ==
    SubmitAction(game, round, round.currentTurnPlayer, a, round.turnStartedAt + MaxElapsed)

CastAnswered(pos) ==
    LET p == round.currentTurnPlayer
        res == Answer([type |-> "cast", position |-> pos])
    IN /\ res.outcome = "accepted"
             <=> (ReserveCount(Board, p) > 0 /\ CellAt(Board, pos) = 0)
       /\ res.outcome # "accepted"
             => /\ res.outcome = "rejected"
                /\ res.reason \in {"InvalidStoneState", "TargetOccupied"}
                /\ res.reason = "InvalidStoneState" => ReserveCount(Board, p) = 0
                /\ res.reason = "TargetOccupied" => CellAt(Board, pos) # 0

RecoverAnswered(from) ==
    LET p == round.currentTurnPlayer
        res == Answer([type |-> "recover", fromPosition |-> from])
    IN /\ res.outcome = "accepted" <=> CellAt(Board, from) = PlayerNum(p)
       /\ res.outcome # "accepted"
             => /\ res.outcome = "rejected"
                /\ res.reason \in {"InvalidStoneState", "TargetEmpty"}
                /\ res.reason = "TargetEmpty" <=> CellAt(Board, from) = 0

TransferAnswered(from, to) ==
    LET p == round.currentTurnPlayer
        res == Answer([type |-> "transfer", fromPosition |-> from, toPosition |-> to])
    IN /\ res.outcome = "accepted"
             <=> (CellAt(Board, from) = PlayerNum(p) /\ CellAt(Board, to) = 0)
       /\ from = to => res.outcome = "rejected"
       /\ res.outcome # "accepted"
             => /\ res.outcome = "rejected"
                /\ res.reason \in {"InvalidStoneState", "TargetOccupied", "TargetEmpty"}
                /\ res.reason = "TargetEmpty" => CellAt(Board, from) = 0
                /\ res.reason = "InvalidStoneState"
                      => CellAt(Board, from) = PlayerNum(Opponent(p))
                /\ res.reason = "TargetOccupied" => CellAt(Board, to) # 0

BasicActionsAnswered ==
    round.status = "active" =>
        /\ \A pos \in LatticeCells : CastAnswered(pos) /\ RecoverAnswered(pos)
        /\ \A from \in LatticeCells, to \in LatticeCells : TransferAnswered(from, to)

\* the stones of player p stand where they stood
StonesStay(p) ==
    \A c \in Idx \X Idx :
        (Board.lattice[c[1]][c[2]] = PlayerNum(p)) <=> (Board'.lattice[c[1]][c[2]] = PlayerNum(p))

(* C19: Placement legality. For the player to move and every intersection:
   a Cast is accepted exactly when the player has a reserve stone and the
   target is empty; a Transfer exactly when `from` holds a stone of the
   player and `to` is empty (so never with from = to); a Recover exactly
   when `from` holds a stone of the player; every other one is rejected with
   InvalidStoneState, TargetOccupied or TargetEmpty, each for its cause; and
   a step that logs a Cast, Transfer or Recover leaves every stone of the
   other player where it stood. *)
C19_PlacementLegality ==
    /\ []BasicActionsAnswered
    /\ [][ (moves' # moves
              /\ moves'[Len(moves')].action.type \in {"cast", "transfer", "recover"})
           => LET e == moves'[Len(moves')]
              IN /\ StonesStay(Opponent(e.player))
                 /\ ReserveCount(Board', Opponent(e.player))
                       = ReserveCount(Board, Opponent(e.player))
                 /\ e.action.type = "cast"
                       => /\ ReserveCount(Board, e.player) > 0
                          /\ CellAt(Board, e.action.position) = 0
                          /\ CellAt(Board', e.action.position) = PlayerNum(e.player)
                 /\ e.action.type = "transfer"
                       => /\ CellAt(Board, e.action.fromPosition) = PlayerNum(e.player)
                          /\ CellAt(Board, e.action.toPosition) = 0
                          /\ CellAt(Board', e.action.fromPosition) = 0
                          /\ CellAt(Board', e.action.toPosition) = PlayerNum(e.player)
                 /\ e.action.type = "recover"
                       => /\ CellAt(Board, e.action.fromPosition) = PlayerNum(e.player)
                          /\ CellAt(Board', e.action.fromPosition) = 0
                          /\ ReserveCount(Board', e.player)
                                = ReserveCount(Board, e.player) + 1 ]_vars

\* sixteen stones are out and the first player, its reserve empty, has
\* transferred a stone on the seventeenth turn
C19_Witness ==
    /\ Len(moves) = 2 * NumStones + 1
    /\ moves[Len(moves)].action.type = "transfer"
    /\ ReserveCount(Board, moves[Len(moves)].player) = 0
    /\ round.status = "active"

----------------------------------------------------------------------------
\* round r with the tiles at indices i and j of player q's rack exchanged
WithTilesExchanged(r, q, i, j) ==
    LET tiles == SightTiles(r, q)
        exchanged == [tiles EXCEPT ![i] = tiles[j], ![j] = tiles[i]]
    IN IF q = "player1" THEN [r EXCEPT !.player1SightTiles = exchanged]
       ELSE [r EXCEPT !.player2SightTiles = exchanged]

RevealAnswered(target, i) ==
    LET p == round.currentTurnPlayer
        a == [type |-> "reveal", targetPlayer |-> target, sightLineIndex |-> i]
        T == round.turnStartedAt + MaxElapsed
        res == SubmitAction(game, round, p, a, T)
        after == res.round.boardState
    IN /\ res.outcome = "accepted"
             <=> /\ ReserveCount(Board, p) > 0
                 /\ target = Opponent(p)
                 /\ ~RevealPositions(Board, Opponent(p))[i]
       /\ res.outcome # "accepted" => res.outcome = "rejected"
       /\ res.outcome = "accepted"
             => /\ after.lattice = Board.lattice
                /\ after.swapPositions = Board.swapPositions
                /\ ReserveCount(after, p) = ReserveCount(Board, p) - 1
                /\ ReserveCount(after, target) = ReserveCount(Board, target)
                /\ RevealPositions(after, target)
                      = [RevealPositions(Board, target) EXCEPT ![i] = TRUE]
                /\ RevealPositions(after, p) = RevealPositions(Board, p)
                /\ res.round.revealedSightTiles
                      = [round.revealedSightTiles EXCEPT ![target][i] = TRUE]
                /\ res.round.player1SightTiles = round.player1SightTiles
                /\ res.round.player2SightTiles = round.player2SightTiles
       /\ \A j \in Idx :
             LET other == SubmitAction(game, WithTilesExchanged(round, target, i, j), p, a, T)
             IN /\ other.outcome = res.outcome
                /\ other.reason = res.reason
                /\ other.round = WithTilesExchanged(res.round, target, i, j)

RevealsAnswered ==
    round.status = "active" => \A target \in Players, i \in Idx : RevealAnswered(target, i)

(* C20: Reveal. For the player to move and every sight line, a Reveal is
   accepted exactly when the player has a reserve stone, targetPlayer is the
   opponent and the reveal position in front of that sight line is empty;
   when accepted it takes one stone from the player's reserve, occupies
   that reveal position, sets the opponent's revealed bit at that index and
   leaves the lattice, the swap positions and the racks unchanged; and the
   answer is the same when the tile at that index is exchanged with any
   other tile of the rack, charm or void. *)
C20_Reveal ==
    /\ []RevealsAnswered
    /\ [][ (moves' # moves /\ moves'[Len(moves')].action.type = "reveal")
           => LET e == moves'[Len(moves')]
              IN /\ e.action.targetPlayer = Opponent(e.player)
                 /\ Board'.lattice = Board.lattice
                 /\ SacrificedReveal(Board', e.player) = SacrificedReveal(Board, e.player) + 1
                 /\ ReserveCount(Board', e.player) = ReserveCount(Board, e.player) - 1
                 /\ ~round.revealedSightTiles[e.action.targetPlayer][e.action.sightLineIndex]
                 /\ round'.revealedSightTiles[e.action.targetPlayer][e.action.sightLineIndex]
         ]_vars

\* a player has revealed a charm and a void of the opponent, and a Reveal on
\* an occupied reveal position has just been refused
C20_Witness ==
    /\ round.status = "active"
    /\ lastResult = "rejected"
    /\ \E p \in Players :
          /\ \E i \in Idx : /\ round.revealedSightTiles[p][i]
                             /\ SightTiles(round, p)[i] = "void"
          /\ \E i \in Idx : /\ round.revealedSightTiles[p][i]
                             /\ SightTiles(round, p)[i] \in Charms
          /\ round.currentTurnPlayer = Opponent(p)

----------------------------------------------------------------------------
\* the swap positions tried: the first and the last of the twelve
SwapSlotInputs == {<<0, 0>>, <<SwapRows - 1, SwapCols - 1>>}

SwapAnswered(s, own, opp) ==
    LET p == round.currentTurnPlayer
        a == [ type |-> "swap", swapRow |-> s[1], swapCol |-> s[2],
               ownStonePosition |-> own, opponentStonePosition |-> opp ]
        res == Answer(a)
        after == res.round.boardState
        ready == ReserveCount(Board, p) > 0 /\ Board.swapPositions[s[1]][s[2]] = 0
    IN /\ res.outcome = "accepted"
             <=> /\ ready
                 /\ CellAt(Board, own) = PlayerNum(p)
                 /\ CellAt(Board, opp) = PlayerNum(Opponent(p))
       /\ res.outcome # "accepted" => res.outcome = "rejected"
       /\ (ready /\ CellAt(Board, own) = PlayerNum(p) /\ CellAt(Board, opp) = PlayerNum(p))
             => res.reason = "SelfTargetInSwap"
       /\ res.reason = "SelfTargetInSwap" => CellAt(Board, opp) = PlayerNum(p)
       /\ res.outcome = "accepted"
             => /\ ReserveCount(after, p) = ReserveCount(Board, p) - 1
                /\ ReserveCount(after, Opponent(p)) = ReserveCount(Board, Opponent(p))
                /\ after.swapPositions
                      = [Board.swapPositions EXCEPT ![s[1]][s[2]] = PlayerNum(p)]
                /\ CellAt(after, own) = PlayerNum(Opponent(p))
                /\ CellAt(after, opp) = PlayerNum(p)
                /\ \A c \in LatticeCells \ {own, opp} : CellAt(after, c) = CellAt(Board, c)
                /\ \A c \in LatticeCells : (CellAt(after, c) = 0) <=> (CellAt(Board, c) = 0)
                /\ after.player1RevealPositions = Board.player1RevealPositions
                /\ after.player2RevealPositions = Board.player2RevealPositions

SwapsAnswered ==
    round.status = "active" =>
        \A s \in SwapSlotInputs, own \in LatticeCells, opp \in LatticeCells :
            SwapAnswered(s, own, opp)

(* C21: Swap. For the player to move, a swap position and two
   intersections: a Swap is accepted exactly when the player has a reserve
   stone, the swap position is empty, ownStonePosition holds a stone of the
   player and opponentStonePosition a stone of the opponent; with a reserve
   stone and an empty swap position, two stones of the player are refused
   with SelfTargetInSwap; an accepted Swap takes one stone from the reserve
   onto the swap position and exchanges the stones of the two
   intersections, every other intersection and the set of occupied
   intersections staying as they were. *)
C21_Swap ==
    /\ []SwapsAnswered
    /\ [][ (moves' # moves /\ moves'[Len(moves')].action.type = "swap")
           => LET e == moves'[Len(moves')]
                  a == e.action
              IN /\ ReserveCount(Board, e.player) > 0
                 /\ Board.swapPositions[a.swapRow][a.swapCol] = 0
                 /\ Board'.swapPositions[a.swapRow][a.swapCol] = PlayerNum(e.player)
                 /\ SacrificedSwap(Board', e.player) = SacrificedSwap(Board, e.player) + 1
                 /\ CellAt(Board, a.ownStonePosition) = PlayerNum(e.player)
                 /\ CellAt(Board, a.opponentStonePosition) = PlayerNum(Opponent(e.player))
                 /\ CellAt(Board', a.ownStonePosition) = PlayerNum(Opponent(e.player))
                 /\ CellAt(Board', a.opponentStonePosition) = PlayerNum(e.player)
                 /\ OnLattice(Board', e.player) = OnLattice(Board, e.player)
                 /\ OnLattice(Board', Opponent(e.player)) = OnLattice(Board, Opponent(e.player))
         ]_vars

\* swaps were made earlier in the round, and the player to move now has a
\* reserve stone and two stones on the lattice, whose Swap is a self-target
C21_Witness ==
    /\ round.status = "active"
    /\ SacrificedSwap(Board, "player1") > 0 /\ SacrificedSwap(Board, "player2") > 0
    /\ \E own \in LatticeCells, opp \in LatticeCells :
          /\ own # opp
          /\ Validate(Board, round.currentTurnPlayer,
                      [ type |-> "swap", swapRow |-> SwapRows - 1, swapCol |-> SwapCols - 1,
                        ownStonePosition |-> own, opponentStonePosition |-> opp ])
                = "SelfTargetInSwap"

----------------------------------------------------------------------------
\* the example of the time-control notes: 5 minutes + 5 seconds, player1 moves
\* 12 seconds into its turn and player2 8 seconds into the next
ExampleClockGame ==
    NewGame("blue", [startingSeconds |-> 300, incrementSeconds |-> 5,
                     betweenRoundSeconds |-> 30], OpenEnded)

ExampleClockRound ==
    [ NewRound(ExampleClockGame, "player1", ExampleLedger) EXCEPT !.status = "active" ]

ExampleClocks ==
    LET first == SubmitAction(ExampleClockGame, ExampleClockRound, "player1",
                              [type |-> "cast", position |-> Pos(0, 0)], 12)
        second == SubmitAction(ExampleClockGame, first.round, "player2",
                               [type |-> "cast", position |-> Pos(0, 1)], 20)
    IN /\ first.outcome = "accepted" /\ second.outcome = "accepted"
       /\ first.round.timeRemaining = [player1 |-> 293, player2 |-> 300]
       /\ first.round.turnStartedAt = 12
       /\ second.round.timeRemaining = [player1 |-> 293, player2 |-> 297]
       /\ second.round.turnStartedAt = 20

\* what submitAction does to the clocks, for every submission tried
ClocksAccounted ==
    (Timed(game) /\ round.status = "active") =>
        \A p \in Players, a \in ProbeActions, T \in ProbeTimestamps :
            LET res == SubmitAction(game, round, p, a, T)
                left == round.timeRemaining[p] - (T - round.turnStartedAt)
            IN /\ res.outcome = "accepted"
                     => /\ left > 0
                        /\ res.round.timeRemaining[p]
                              = left + game.timeControl.incrementSeconds
                        /\ res.round.timeRemaining[Opponent(p)]
                              = round.timeRemaining[Opponent(p)]
                        /\ res.round.turnStartedAt = T
               /\ res.outcome = "forced"
                     => LET q == round.currentTurnPlayer
                        IN /\ res.round.timeRemaining[q]
                                 = round.timeRemaining[q] - (T - round.turnStartedAt)
                           /\ res.round.timeRemaining[q] <= 0
                           /\ res.round.timeRemaining[Opponent(q)]
                                 = round.timeRemaining[Opponent(q)]
               /\ res.outcome = "rejected"
                     => /\ res.round.timeRemaining = round.timeRemaining
                        /\ res.round.turnStartedAt = round.turnStartedAt

(* C22: Clock accounting. In a timed game an accepted action of player p
   arriving at T sets p's remaining time to
   old - (T - turnStartedAt) + incrementSeconds, leaves the opponent's
   remaining time unchanged and sets turnStartedAt to T (300 - 12 + 5 = 293
   in the example); the increment is added only when the time left after the
   deduction is > 0: an action is accepted only then, and a forced End Round
   stores the deducted time, <= 0, without increment. *)
C22_ClockAccounting ==
    /\ [](ExampleClocks /\ ClocksAccounted)
    /\ [][ (Timed(game) /\ moves' # moves)
           => LET e == moves'[Len(moves')]
                  left == round.timeRemaining[e.player] - (e.timestamp - round.turnStartedAt)
              IN /\ round'.timeRemaining[Opponent(e.player)]
                       = round.timeRemaining[Opponent(e.player)]
                 /\ IF lastResult' = "accepted"
                    THEN /\ left > 0
                         /\ round'.timeRemaining[e.player]
                               = left + game.timeControl.incrementSeconds
                         /\ round'.turnStartedAt = e.timestamp
                    ELSE /\ left <= 0
                         /\ round'.timeRemaining[e.player] = left ]_vars

\* both players have moved MaxElapsed seconds into a turn and were credited
\* the increment: each has less than it started with, and the round goes on
C22_Witness ==
    /\ Timed(game)
    /\ round.status = "active"
    /\ lastResult = "accepted"
    /\ Len(moves) >= 2
    /\ \A p \in Players :
          round.timeRemaining[p] = StartingSeconds - MaxElapsed + IncrementSeconds
    /\ round.turnStartedAt = 2 * MaxElapsed

----------------------------------------------------------------------------
\* the clock of the player to move has run out at T
ClockRunOut(T) ==
    round.timeRemaining[round.currentTurnPlayer] - (T - round.turnStartedAt) <= 0

\* the forced End Round of the player to move at T, scored on the round as it stands
ForcedAt(res, T) ==
    LET q == round.currentTurnPlayer
    IN /\ res.outcome = "forced"
       /\ res.round.status = "scoring"
       /\ res.round.endedBy = q
       /\ res.round.boardState = round.boardState
       /\ res.round.scoring = ComputeScoring(game, round, q)
       /\ res.entries = << [ turnNumber |-> round.turnNumber, player |-> q,
                             action |-> [type |-> "endRound"], timestamp |-> T ] >>

\* late submissions of either player, legal or not, and late polls are forced
\* End Rounds; polls in time change nothing
TimeoutBeforeValidation ==
    (Timed(game) /\ round.status = "active") =>
        \A T \in ProbeTimestamps :
            /\ ClockRunOut(T) =>
                  /\ \A p \in Players, a \in ProbeActions :
                        ForcedAt(SubmitAction(game, round, p, a, T), T)
                  /\ ForcedAt(EvaluateRoundTimeout(game, round, T), T)
            /\ ~ClockRunOut(T) =>
                  /\ EvaluateRoundTimeout(game, round, T).round = round
                  /\ EvaluateRoundTimeout(game, round, T).entries = <<>>
                  /\ \A p \in Players, a \in ProbeActions :
                        SubmitAction(game, round, p, a, T).outcome # "forced"

\* the round as it stood before the last entry of the log
RoundBeforeLastMove == Replay(game, InitialRoundState, SubSeq(moves, 1, Len(moves) - 1))

(* C23: Timeout check precedes validation. In an active timed round, an
   action of either player arriving at T with the remaining time of the
   player to move minus (T - turnStartedAt) <= 0 is answered by a forced End
   Round of the player to move, never by a rejection, whether the action is
   legal, illegal or out of turn; a poll at such a T does the same and a
   poll before it does nothing; and the round leaves the active phase only
   in a step that appends an End Round entry carrying the timestamp of a
   submission or a poll, a forced one only when the clock had run out at
   that timestamp. *)
C23_TimeoutPrecedesValidation ==
    /\ []TimeoutBeforeValidation
    /\ [][ /\ (round.status = "active" /\ round'.status # "active")
                 => /\ Len(moves') = Len(moves) + 1
                    /\ moves'[Len(moves')].action.type = "endRound"
                    /\ moves'[Len(moves')].player = round.currentTurnPlayer
                    /\ lastResult' \in {"accepted", "forced"}
           /\ (round.status = "active" /\ lastResult' = "forced" /\ moves' # moves)
                 => /\ Timed(game)
                    /\ ClockRunOut(moves'[Len(moves')].timestamp)
                    /\ round'.endedBy = round.currentTurnPlayer
                    /\ round'.endedAt = moves'[Len(moves')].timestamp
           /\ (round.status = "active" /\ lastResult' = "rejected" /\ Timed(game))
                 => round' = round ]_vars

\* a timeout has just ended a round at a moment when a Cast on the occupied
\* flower intersection, refused in time from either player, was forced too
C23_Witness ==
    /\ Timed(game)
    /\ lastResult = "forced"
    /\ round.status = "scoring"
    /\ Len(moves) = 2
    /\ game.roundCount = 1
    /\ LET before == RoundBeforeLastMove
           a == [type |-> "cast", position |-> CharmLocation(round, "flower")]
       IN \A p \in Players :
             /\ SubmitAction(game, before, p, a, before.turnStartedAt).outcome = "rejected"
             /\ SubmitAction(game, before, p, a, moves[2].timestamp).outcome = "forced"

----------------------------------------------------------------------------
\* between rounds the last round is completed and no other exists; a round
\* that has not been played yet is its first player's to move
RoundsInStep ==
    /\ game.status = "betweenRounds"
          => /\ round.status = "completed"
             /\ game.betweenRoundState # Null
             /\ Cardinality(ReadyPlayers(game)) <= 1
    /\ game.status = "active" => game.betweenRoundState = Null
    /\ (round.status = "setup" \/ moves = <<>>)
          => /\ round.currentTurnPlayer = round.firstPlayer
             /\ round.turnNumber = 1
    /\ moves # <<>> => moves[1].player = round.firstPlayer

(* C24: Next round. A round is created only by the step in which the second
   player readies up: the game is between rounds with the other player's
   ready flag already set, and returns to active; the new round's
   firstPlayer is the opposite of the previous round's, its currentTurnPlayer
   is its firstPlayer and it starts from an empty board; no other step
   replaces the round or leaves betweenRounds for active; and player1Color,
   hence the colour of each player, is the same after every step. *)
C24_NextRound ==
    /\ []RoundsInStep
    /\ [][ /\ game'.player1Color = game.player1Color
           /\ \A p \in Players : PlayerColor(game', p) = PlayerColor(game, p)
           /\ ( \/ game'.roundCount # game.roundCount
                \/ (game.status = "betweenRounds" /\ game'.status = "active")
                \/ PhaseRank(round'.status) < PhaseRank(round.status) )
                 => /\ game.status = "betweenRounds"
                    /\ Cardinality(ReadyPlayers(game)) = 1
                    /\ round.status = "completed"
                    /\ game'.status = "active"
                    /\ game'.roundCount = game.roundCount + 1
                    /\ game'.roundWins = game.roundWins
                    /\ round'.status = "setup"
                    /\ round'.firstPlayer = Opponent(round.firstPlayer)
                    /\ round'.currentTurnPlayer = round'.firstPlayer
                    /\ round'.boardState = InitialBoardState
                    /\ moves' = <<>>
           /\ (game.status = "betweenRounds" /\ ReadyPlayers(game) = {})
                 => (round' = round /\ game'.status # "active") ]_vars

\* the third round of a game is being played: its first player has moved, as
\* the other player did first in the second round
C24_Witness ==
    /\ game.roundCount = 3
    /\ game.status = "active"
    /\ round.status = "active"
    /\ Len(moves) = 1
    /\ moves[1].player = round.firstPlayer
    /\ game.roundWins.player1 + game.roundWins.player2 = 2

----------------------------------------------------------------------------
\* the game is over
Terminal(g) == g.status \in {"completed", "abandoned"}

\* in a first-to-N game no tally is above the target, and a tally at the
\* target means the game is completed and won by that player
TargetEndsGame ==
    game.winCondition.type = "firstToN" =>
        \A p \in Players :
            /\ game.roundWins[p] <= game.winCondition.targetWins
            /\ game.roundWins[p] = game.winCondition.targetWins
                  => /\ game.status = "completed"
                     /\ game.winner = p
                     /\ round.status = "completed"
                     /\ round.scoring.winner = p

\* on a game that is over, a submitted action is refused and an evaluation of
\* the between-round timeout, however late, changes nothing
TerminalInert ==
    Terminal(game) =>
        /\ round.status = "completed"
        /\ \A p \in Players, a \in ProbeActions, T \in ProbeTimestamps :
              LET res == SubmitAction(game, round, p, a, T)
              IN res.outcome = "rejected" /\ res.round = round
        /\ \A late \in 0 .. (BetweenRoundSeconds + MaxElapsed) :
              EvaluateBetweenRoundTimeout(game, round.endedAt + late) = game

(* C25: Game completion. In a first-to-N game the step that completes the
   round giving a player its targetWins-th win completes the game, so no
   tally exceeds targetWins; and once the game is completed or abandoned it
   stays as it is: no round is created or started, every submitted action
   is refused, a timeout evaluation changes nothing, and the phase, the
   tally and the round never change. *)
C25_GameCompletion ==
    /\ [](TargetEndsGame /\ TerminalInert)
    /\ [][ /\ Terminal(game)
                 => /\ game' = game
                    /\ round' = round
                    /\ moves' = moves
           /\ (game.winCondition.type = "firstToN" /\ game'.roundWins # game.roundWins)
                 => \A p \in Players :
                       game'.roundWins[p] = game.winCondition.targetWins
                           <=> (game'.status = "completed" /\ game'.roundWins[p] # game.roundWins[p])
         ]_vars

\* a first-to-N game has been won in its last round, the loser having won a
\* round too
C25_Witness ==
    /\ game.winCondition.type = "firstToN"
    /\ game.status = "completed"
    /\ game.winner \in Players
    /\ game.roundWins[game.winner] = TargetWins
    /\ game.roundWins[Opponent(game.winner)] >= 1

----------------------------------------------------------------------------
\* the nodes the list of elements or of errors names
ElementIds(els) == {els[i].id : i \in 1 .. Len(els)}

ErrorIds(errs) == {errs[i].nodeId : i \in 1 .. Len(errs)}

\* the groups whose own patch marks them terminal
MarkedTerminal(n) == ~IsLeaf(n) /\ Truthy(RuleOf(rules, n), "terminal")

(* C26: SVG annotator. When a group is marked terminal, Export Board
   Elements emits at most one element for the group, exactly one when the
   group has a zone and is not skipped, and none for any of its descendants,
   and the validation errors stored name none of its descendants. *)
C26_TerminalGroups ==
    \A n \in SvgNodes :
        MarkedTerminal(n) =>
            LET els == exportBoardElements(rules)
            IN /\ Cardinality({i \in 1 .. Len(els) : els[i].id = n}) <= 1
               /\ ("zone" \in DOMAIN Merged(rules, n) /\ ~Truthy(Merged(rules, n), "skip"))
                     => n \in ElementIds(els)
               /\ \A d \in Descendants(n) :
                     /\ d \notin ElementIds(els)
                     /\ d \notin ErrorIds(validationErrors)

----------------------------------------------------------------------------
\* the rack is a shuffle of the five tiles
IsShuffle(tiles) ==
    /\ \A k \in Charms : Cardinality({i \in Idx : tiles[i] = k}) = 1
    /\ Cardinality({i \in Idx : tiles[i] = "void"}) = 2

\* no two charms share a leftIndex or a rightIndex
CharmCellsDistinct ==
    \A k1 \in Charms, k2 \in Charms :
        k1 # k2 =>
            /\ CharmLocation(round, k1).leftIndex # CharmLocation(round, k2).leftIndex
            /\ CharmLocation(round, k1).rightIndex # CharmLocation(round, k2).rightIndex
            /\ CharmLocation(round, k1) # CharmLocation(round, k2)

\* the points awarded to p for the charms it captured
CharmAward(p) == round.scoring.points[p] + round.scoring.revealedVoidsByPlayer[p]

CapturedByOne ==
    round.status \in {"scoring", "completed"} =>
        /\ round.scoring.capturedCharms.player1 \cap round.scoring.capturedCharms.player2 = {}
        /\ \A k \in Charms :
              (k \in round.scoring.capturedCharms.player1
                  \/ k \in round.scoring.capturedCharms.player2)
              <=> CellAt(Board, CharmLocation(round, k)) # 0

(* C27 as stated: the charm cells are pairwise distinct and the points
   awarded for charms to both players together never exceed 30. *)
C27_Original ==
    /\ CharmCellsDistinct
    /\ CapturedByOne
    /\ round.status \in {"scoring", "completed"}
          => CharmAward("player1") + CharmAward("player2") <= 30

(* C27 (amended): in every round each rack is a shuffle of its five tiles,
   so the three charm cells are pairwise distinct and no two share a
   leftIndex or a rightIndex; each charm is captured by at most one player,
   the one whose stone covers its cell; the points awarded for charms to one
   player never exceed 30 (15 + 10 + 5) and those awarded to both players
   together never exceed 40 (15 + 15 + 10). *)
C27_CharmCellsDistinct ==
    /\ IsShuffle(round.player1SightTiles) /\ IsShuffle(round.player2SightTiles)
    /\ CharmCellsDistinct
    /\ CapturedByOne
    /\ round.status \in {"scoring", "completed"}
          => /\ \A p \in Players : CharmAward(p) <= 30
             /\ CharmAward("player1") + CharmAward("player2") <= 40

\* each player has captured its own sun and one of them the flower: 40 points
\* for charms, on a rack whose charms stand on the last three sight lines
C27_Witness ==
    /\ round.status = "scoring"
    /\ CharmAward("player1") + CharmAward("player2") = 40
    /\ \A i \in {0, 1} : round.player1SightTiles[i] = "void"

----------------------------------------------------------------------------
\* the sight lines of p whose revealed bit is true
RevealedBits(p) == {i \in Idx : round.revealedSightTiles[p][i]}

\* the Reveal entries of the log on sight line i of player p
RevealEntries(p, i) ==
    {n \in 1 .. Len(moves) :
        /\ moves[n].action.type = "reveal"
        /\ moves[n].action.targetPlayer = p
        /\ moves[n].action.sightLineIndex = i}

\* bit, reveal position and log agree, and the stone is the opponent's
RevealBookkeeping ==
    \A p \in Players :
        /\ \A i \in Idx :
              /\ round.revealedSightTiles[p][i] <=> RevealPositions(Board, p)[i]
              /\ round.revealedSightTiles[p][i] <=> RevealEntries(p, i) # {}
              /\ Cardinality(RevealEntries(p, i)) <= 1
              /\ \A n \in RevealEntries(p, i) : moves[n].player = Opponent(p)
        /\ Cardinality(RevealedBits(p)) = SacrificedReveal(Board, Opponent(p))
        /\ Cardinality(RevealedBits(p)) <= Sacrificed(Board, Opponent(p))
        /\ Cardinality(RevealedBits(p)) <= NumStones - ReserveCount(Board, Opponent(p))

(* C28: Reveal bookkeeping agrees. In every reachable round state, for each
   player P and index i, P's revealed bit at i is true exactly when the
   reveal position in front of P's sight line i is occupied, and the stone
   on it was sacrificed there by P's opponent in one Reveal of the log; so
   the true bits of P are never more than the stones P's opponent has
   sacrificed; and a step sets a bit of P only by a Reveal of P's opponent
   that takes a stone from the opponent's reserve. *)
C28_RevealBookkeeping ==
    /\ []RevealBookkeeping
    /\ [][ \A p \in Players, i \in Idx :
              (~round.revealedSightTiles[p][i] /\ round'.revealedSightTiles[p][i])
              => /\ ~RevealPositions(Board, p)[i] /\ RevealPositions(Board', p)[i]
                 /\ moves' = Append(moves, moves'[Len(moves')])
                 /\ moves'[Len(moves')].player = Opponent(p)
                 /\ moves'[Len(moves')].action
                       = [type |-> "reveal", targetPlayer |-> p, sightLineIndex |-> i]
                 /\ ReserveCount(Board', Opponent(p)) = ReserveCount(Board, Opponent(p)) - 1
                 /\ ReserveCount(Board', p) = ReserveCount(Board, p) ]_vars

\* each player has revealed a tile of the other with its last stone, after
\* sacrificing stones on swap positions: more stones sacrificed than bits set
C28_Witness ==
    /\ round.status = "active"
    /\ \A p \in Players :
          /\ RevealedBits(p) # {}
          /\ ReserveCount(Board, p) = 0
          /\ SacrificedSwap(Board, p) > 0
          /\ Cardinality(RevealedBits(p)) < Sacrificed(Board, Opponent(p))

----------------------------------------------------------------------------
\* the rounds of the game that have reached Completed: every round before the
\* current one, and the current one once it is completed
CompletedRounds ==
    IF round.status = "completed" THEN game.roundCount ELSE game.roundCount - 1

\* the two tallies add up to the number of completed rounds
TallyAgrees ==
    /\ game.roundWins.player1 + game.roundWins.player2 = CompletedRounds
    /\ round.status = "completed" => round.scoring # Null /\ round.scoring.winner \in Players

(* C29: Win tally agrees with rounds. In every state roundWins.player1 +
   roundWins.player2 is the number of the game's rounds that have reached
   Completed; the step that completes a round adds exactly one to the tally
   of that round's scoring winner and leaves the other tally alone, and no
   other step changes a tally; and a round is added to the game only when
   the round before it is Completed, so at most one round is not Completed. *)
C29_WinTally ==
    /\ []TallyAgrees
    /\ [][ LET completes == round.status # "completed" /\ round'.status = "completed"
           IN /\ completes
                    => LET w == round'.scoring.winner
                       IN /\ round'.scoring = round.scoring
                          /\ game'.roundWins[w] = game.roundWins[w] + 1
                          /\ game'.roundWins[Opponent(w)] = game.roundWins[Opponent(w)]
                          /\ game'.roundCount = game.roundCount
              /\ ~completes => game'.roundWins = game.roundWins
              /\ game'.roundCount # game.roundCount
                    => /\ round.status = "completed"
                       /\ game'.roundCount = game.roundCount + 1
                       /\ round'.status # "completed" ]_vars

\* the third round has been won by the player who did not end it, each
\* player having won a round before
C29_Witness ==
    /\ game.roundCount = 3
    /\ round.status = "completed"
    /\ game.roundWins.player1 >= 1
    /\ game.roundWins.player2 >= 1
    /\ game.roundWins.player1 + game.roundWins.player2 = 3
    /\ round.scoring.winner # round.endedBy

----------------------------------------------------------------------------
\* the round with other tiles on the two racks
WithLedger(r, ledger) ==
    [r EXCEPT !.player1SightTiles = ledger.player1, !.player2SightTiles = ledger.player2]

\* other shuffles of the racks: the example round's, the explored shuffle
\* with the two racks exchanged, and the explored shuffle itself
OtherLedgers ==
    {ExampleLedger} \cup {[player1 |-> l.player2, player2 |-> l.player1] : l \in Ledgers}

\* the submissions compared: one or two of each type, legal or not by the
\* board, and a Reveal of a charm's line, of a void's and of no line
LedgerProbes ==
    {[type |-> "cast", position |-> pos] : pos \in {Pos(0, 0), Pos(LatticeSize, 0)}}
    \cup {[type |-> "transfer", fromPosition |-> Pos(0, 0), toPosition |-> Pos(0, 1)]}
    \cup {[type |-> "recover", fromPosition |-> Pos(0, 0)]}
    \cup {[type |-> "reveal", targetPlayer |-> t, sightLineIndex |-> i] :
              t \in Players, i \in SightInputs \cup {LatticeSize}}
    \cup {[type |-> "swap", swapRow |-> 0, swapCol |-> 0,
           ownStonePosition |-> Pos(0, 0), opponentStonePosition |-> Pos(0, 1)]}
    \cup {[type |-> "endRound"]}

\* each of them at the start of the turn and, in a timed round, a Cast, a
\* Reveal of a void's line and an End Round at the instant the clock of the
\* player to move reaches zero
LedgerCases ==
    IF Timed(game)
    THEN (LedgerProbes \X {round.turnStartedAt})
         \cup ({ [type |-> "cast", position |-> Pos(0, 0)],
                 [type |-> "reveal", targetPlayer |-> Opponent(round.currentTurnPlayer),
                  sightLineIndex |-> 2],
                 [type |-> "endRound"] }
               \X {round.turnStartedAt + round.timeRemaining[round.currentTurnPlayer]})
    ELSE LedgerProbes \X {round.turnStartedAt + MaxElapsed}

\* what submitAction answers
Verdict(res) == [outcome |-> res.outcome, reason |-> res.reason]

\* the public part of the round submitAction returns: lattice, reserves,
\* reveal and swap positions, revealed bits, turn cursor and clocks
PublicRound(res) ==
    [ boardState |-> res.round.boardState,
      revealedSightTiles |-> res.round.revealedSightTiles,
      currentTurnPlayer |-> res.round.currentTurnPlayer,
      turnNumber |-> res.round.turnNumber,
      turnStartedAt |-> res.round.turnStartedAt,
      timeRemaining |-> res.round.timeRemaining ]

(* C30: Legality does not depend on hidden tiles. For the active round and
   the round that differs from it in the two tile ledgers only, submitAction
   with the same player, action and timestamp gives the same outcome and
   reason and, for every action other than End Round, the same lattice,
   reserves, reveal and swap positions, revealed bits, turn cursor and
   clocks. *)
C30_HiddenTilesIrrelevant ==
    [](round.status = "active" =>
        \A ledger \in OtherLedgers, p \in Players, c \in LedgerCases :
            LET here == SubmitAction(game, round, p, c[1], c[2])
                there == SubmitAction(game, WithLedger(round, ledger), p, c[1], c[2])
            IN /\ Verdict(here) = Verdict(there)
               /\ c[1].type # "endRound" => PublicRound(here) = PublicRound(there))

\* in a timed round a void tile has just been revealed which is a charm on
\* another shuffle, and a second Reveal is accepted on one sight line and
\* refused on another
C30_Witness ==
    /\ Timed(game)
    /\ round.status = "active"
    /\ lastResult = "accepted"
    /\ moves # <<>>
    /\ LET e == moves[Len(moves)]
       IN /\ e.action.type = "reveal"
          /\ SightTiles(round, e.action.targetPlayer)[e.action.sightLineIndex] = "void"
          /\ \E ledger \in OtherLedgers :
                SightTiles(WithLedger(round, ledger), e.action.targetPlayer)
                    [e.action.sightLineIndex] # "void"
    /\ \E a \in LedgerProbes :
          /\ a.type = "reveal"
          /\ SubmitAction(game, round, round.currentTurnPlayer, a, round.turnStartedAt).outcome
                = "accepted"
    /\ \E a \in LedgerProbes :
          /\ a.type = "reveal"
          /\ SubmitAction(game, round, round.currentTurnPlayer, a, round.turnStartedAt).reason
                = "UnknownSlot"

====
